---- MODULE Spec2Model ----
(***************************************************************************)
(* A model of promptwright: the topic tree builder (topic_tree.py), the    *)
(* sample generator DataEngine (engine.py), the Dataset (dataset.py) and   *)
(* the text helpers they rest on (utils.py).                               *)
(*                                                                         *)
(* Texts are TLA+ strings, read character by character with Len and        *)
(* SubSeq, so parsing, stripping and searching are computed as the code    *)
(* computes them.  Parsed JSON values are tagged records [t, s, q]:        *)
(*   "str"  s = the string          "num"  s = the digits                  *)
(*   "lit"  s = "null" | "true" | "false"                                  *)
(*   "list" q = sequence of values  "dict" q = sequence of [k, val]        *)
(* (s is "" and q is << >> where they carry nothing).                      *)
(* String literals are read with their escapes (\", \\, \/, \n, \t, \r);    *)
(* \u escapes and duplicate keys do not occur in the texts the model       *)
(* feeds to the parsers.                                                   *)
(***************************************************************************)
EXTENDS Integers, Sequences, FiniteSets, TLC

\* ------------------------------------------------------------------ text

DQ == "\""

SQ == "'"

WS == {" ", "\n", "\t", "\r"}

Digits == {"0", "1", "2", "3", "4", "5", "6", "7", "8", "9"}

\* The character of s at position i ("" past either end).
Ch(s, i) == IF i >= 1 /\ i <= Len(s) THEN SubSeq(s, i, i) ELSE ""

\* s[i:j] with 1-based inclusive bounds.
Sub(s, i, j) == IF i > j THEN "" ELSE SubSeq(s, i, j)

\* Whether text t occurs in s starting at position i.
StartsAt(s, i, t) == i >= 1 /\ i + Len(t) - 1 <= Len(s) /\ SubSeq(s, i, i + Len(t) - 1) = t

\* Python's `t in s` for strings.
Contains(s, t) == \E i \in 1..(Len(s) + 1) : StartsAt(s, i, t)

\* str.find: the first position of t in s, 0 when absent.
Find(s, t) == IF Contains(s, t) THEN CHOOSE i \in 1..(Len(s) + 1) : StartsAt(s, i, t) /\ \A j \in 1..(i - 1) : ~StartsAt(s, j, t) ELSE 0

\* str.rfind: the last position of t in s, 0 when absent.
RFind(s, t) == IF Contains(s, t) THEN CHOOSE i \in 1..(Len(s) + 1) : StartsAt(s, i, t) /\ \A j \in (i + 1)..(Len(s) + 1) : ~StartsAt(s, j, t) ELSE 0

\* str.isspace: non-empty and whitespace only.
IsSpace(s) == Len(s) > 0 /\ \A i \in 1..Len(s) : Ch(s, i) \in WS

\* The least and the greatest of a non-empty set of positions.
Least(positions) == CHOOSE i \in positions : \A j \in positions : i <= j

Greatest(positions) == CHOOSE i \in positions : \A j \in positions : i >= j

\* The first position at or after i that holds no whitespace.
SkipWs(s, i) ==
    IF i > Len(s) THEN i ELSE Least({j \in i..(Len(s) + 1) : Ch(s, j) \notin WS})

\* The last position at or before i that holds no whitespace (0 if none).
SkipWsBack(s, i) ==
    IF i < 1 \/ i > Len(s) THEN i ELSE Greatest({j \in 0..i : Ch(s, j) \notin WS})

RECURSIVE Concat(_, _, _)
\* parts[lo] \o ... \o parts[hi]
Concat(parts, lo, hi) ==
    IF lo > hi THEN ""
    ELSE IF lo = hi THEN parts[lo]
    ELSE Concat(parts, lo, (lo + hi) \div 2) \o Concat(parts, (lo + hi) \div 2 + 1, hi)

\* str.strip
Strip(s) == Sub(s, SkipWs(s, 1), SkipWsBack(s, Len(s)))

LowerCh(c) ==
    CASE c = "A" -> "a" [] c = "B" -> "b" [] c = "C" -> "c" [] c = "D" -> "d"
      [] c = "E" -> "e" [] c = "F" -> "f" [] c = "G" -> "g" [] c = "H" -> "h"
      [] c = "I" -> "i" [] c = "J" -> "j" [] c = "K" -> "k" [] c = "L" -> "l"
      [] c = "M" -> "m" [] c = "N" -> "n" [] c = "O" -> "o" [] c = "P" -> "p"
      [] c = "Q" -> "q" [] c = "R" -> "r" [] c = "S" -> "s" [] c = "T" -> "t"
      [] c = "U" -> "u" [] c = "V" -> "v" [] c = "W" -> "w" [] c = "X" -> "x"
      [] c = "Y" -> "y" [] c = "Z" -> "z" [] OTHER -> c

\* str.lower
Lower(s) == Concat([i \in 1..Len(s) |-> LowerCh(Ch(s, i))], 1, Len(s))

\* ---------------------------------------------------------- JSON values

JStr(s) == [t |-> "str", s |-> s, q |-> <<>>]

JNum(s) == [t |-> "num", s |-> s, q |-> <<>>]

JLit(s) == [t |-> "lit", s |-> s, q |-> <<>>]

JList(q) == [t |-> "list", s |-> "", q |-> q]

JDict(q) == [t |-> "dict", s |-> "", q |-> q]

JNone == JLit("null")

\* The parsers' result: ok, the value, and the position after it; when not
\* ok, the exception: "syntax" (json.JSONDecodeError, Python's SyntaxError),
\* "ValueError", or the message of a TypeError.
POk(val, pos) == [ok |-> TRUE, val |-> val, pos |-> pos, err |-> ""]

PErr(kind) == [ok |-> FALSE, val |-> JNone, pos |-> 0, err |-> kind]

PFail == PErr("syntax")

Letters ==
    {"a", "b", "c", "d", "e", "f", "g", "h", "i", "j", "k", "l", "m", "n", "o", "p", "q",
     "r", "s", "t", "u", "v", "w", "x", "y", "z", "A", "B", "C", "D", "E", "F", "G", "H",
     "I", "J", "K", "L", "M", "N", "O", "P", "Q", "R", "S", "T", "U", "V", "W", "X", "Y",
     "Z", "_"}

\* The position after the Python name that starts at i.
NameEnd(s, i) == Least({j \in i..(Len(s) + 1) : Ch(s, j) \notin Letters \cup Digits})

\* The position after the run of digits that starts at i.
DigitsEnd(s, i) == Least({j \in i..(Len(s) + 1) : Ch(s, j) \notin Digits})

\* The number of backslashes in a row that end right before position j of
\* s, none of them before position i.
Backslashes(s, i, j) == j - 1 - Greatest({k \in (i - 1)..(j - 1) : k = i - 1 \/ Ch(s, k) # "\\"})

\* Whether the quote character q stands at j, not escaped.
ClosesAt(s, i, j, q) == Ch(s, j) = q /\ Backslashes(s, i, j) % 2 = 0

\* The position of the next quote character q at or after i that no
\* backslash escapes (0 if none).
QuoteEnd(s, i, q) ==
    IF \A j \in i..Len(s) : ~ClosesAt(s, i, j, q) THEN 0
    ELSE Least({j \in i..Len(s) : ClosesAt(s, i, j, q)})

\* The character an escape sequence stands for ("?": none the model knows).
UnescapeCh(c) ==
    CASE c = DQ -> DQ [] c = SQ -> SQ [] c = "\\" -> "\\" [] c = "/" -> "/"
      [] c = "n" -> "\n" [] c = "t" -> "\t" [] c = "r" -> "\r" [] OTHER -> "?"

\* The positions of t where an escape sequence starts.
EscapeStarts(t) == {p \in 1..Len(t) : Ch(t, p) = "\\" /\ Backslashes(t, 1, p) % 2 = 0}

\* The inside of a string literal is well formed: every escape is one of
\* the above, and JSON allows no raw control character.
StringOk(t, d) ==
    /\ \A p \in EscapeStarts(t) : Ch(t, p + 1) # "" /\ UnescapeCh(Ch(t, p + 1)) # "?"
    /\ \A p \in 1..Len(t) : Ch(t, p) # "\n"
    /\ d = "json" => \A p \in 1..Len(t) : Ch(t, p) \notin {"\t", "\r"}

\* The string a literal with the inside t stands for.
Unescaped(t) ==
    IF ~Contains(t, "\\") THEN t
    ELSE Concat([p \in 1..Len(t) |->
                    IF p \in EscapeStarts(t) THEN UnescapeCh(Ch(t, p + 1))
                    ELSE IF p - 1 \in EscapeStarts(t) THEN ""
                    ELSE Ch(t, p)], 1, Len(t))

\* The constants of the dialects: JSON's and Python's.
Literals(d) ==
    IF d = "json" THEN << <<"null", "null">>, <<"true", "true">>, <<"false", "false">> >>
    ELSE << <<"None", "null">>, <<"True", "true">>, <<"False", "false">> >>

RECURSIVE ParseValue(_, _, _)
RECURSIVE ParseElems(_, _, _, _)
RECURSIVE ParseMembers(_, _, _, _)

\* One string literal of dialect d starting at i (quote q), as a parse
\* result.
ParseString(s, i, q, d) ==
    LET e == QuoteEnd(s, i + 1, q)
    IN  IF e = 0 \/ ~StringOk(Sub(s, i + 1, e - 1), d) THEN PFail
        ELSE POk(JStr(Unescaped(Sub(s, i + 1, e - 1))), e + 1)

\* A Python name: any name is an expression for the parser ("ast"); for
\* the evaluation ("py") it is one of the three constants or a malformed
\* node, a ValueError.
ParseName(s, j, d, lits) ==
    IF d = "ast" THEN POk(JLit("name"), NameEnd(s, j))
    ELSE IF \E k \in 1..3 : lits[k][1] = Sub(s, j, NameEnd(s, j) - 1)
    THEN POk(JLit(lits[CHOOSE k \in 1..3 : lits[k][1] = Sub(s, j, NameEnd(s, j) - 1)][2]),
             NameEnd(s, j))
    ELSE PErr("ValueError")

\* One value starting at or after i, in dialect d. "json": json.loads.
\* ast.literal_eval is two passes over lists, dicts, strings, numbers and
\* names: "ast", the parser, which fails on the syntax only, and "py", the
\* evaluation of what was parsed, from left to right.
ParseValue(s, i, d) ==
    LET j == SkipWs(s, i)
        c == Ch(s, j)
        lits == Literals(d)
    IN  CASE c = "[" -> ParseElems(s, j + 1, d, <<>>)
          [] c = "{" -> ParseMembers(s, j + 1, d, <<>>)
          [] c = DQ -> ParseString(s, j, DQ, d)
          [] c = SQ /\ d # "json" -> ParseString(s, j, SQ, d)
          [] c \in Digits -> POk(JNum(Sub(s, j, DigitsEnd(s, j) - 1)), DigitsEnd(s, j))
          [] c \in Letters /\ d # "json" -> ParseName(s, j, d, lits)
          [] \E k \in 1..3 : StartsAt(s, j, lits[k][1]) ->
                LET k == CHOOSE k \in 1..3 : StartsAt(s, j, lits[k][1])
                IN  POk(JLit(lits[k][2]), j + Len(lits[k][1]))
          [] OTHER -> PFail

\* The elements of a list after its "[" (acc: those read so far).
ParseElems(s, i, d, acc) ==
    LET j == SkipWs(s, i)
    IN  IF Ch(s, j) = "]" /\ (acc = <<>> \/ d # "json")
        THEN POk(JList(acc), j + 1)
        ELSE LET r == ParseValue(s, j, d)
                 k == SkipWs(s, r.pos)
             IN  IF ~r.ok THEN r
                 ELSE IF Ch(s, k) = "," THEN
                          IF d = "json" /\ Ch(s, SkipWs(s, k + 1)) = "]" THEN PFail
                          ELSE ParseElems(s, k + 1, d, Append(acc, r.val))
                 ELSE IF Ch(s, k) = "]" THEN POk(JList(Append(acc, r.val)), k + 1)
                 ELSE PFail

\* The members of an object after its "{" (acc: those read so far). A JSON
\* key is a string. A Python key is any expression: the evaluation makes
\* the key, then the value, then puts them in the dict, a TypeError for a
\* key that is a list or a dict (unhashable); a key that is a number or a
\* constant is kept by its text.
ParseMembers(s, i, d, acc) ==
    LET j == SkipWs(s, i)
    IN  IF Ch(s, j) = "}" /\ (acc = <<>> \/ d # "json")
        THEN POk(JDict(acc), j + 1)
        ELSE LET kr == ParseValue(s, j, d)
                 c == SkipWs(s, kr.pos)
                 vr == ParseValue(s, c + 1, d)
                 k == SkipWs(s, vr.pos)
             IN  IF ~kr.ok THEN kr
                 ELSE IF (d = "json" /\ kr.val.t # "str") \/ Ch(s, c) # ":" THEN PFail
                 ELSE IF ~vr.ok THEN vr
                 ELSE IF d = "py" /\ kr.val.t \in {"list", "dict"} THEN PErr("unhashable type: '" \o kr.val.t \o "'")
                 ELSE LET m == [k |-> kr.val.s, val |-> vr.val]
                      IN  IF Ch(s, k) = "," THEN
                              IF d = "json" /\ Ch(s, SkipWs(s, k + 1)) = "}" THEN PFail
                              ELSE ParseMembers(s, k + 1, d, Append(acc, m))
                          ELSE IF Ch(s, k) = "}" THEN POk(JDict(Append(acc, m)), k + 1)
                          ELSE PFail

\* A whole text as one value of dialect d: the value, or a failure.
ParseWhole(s, d) ==
    LET r == ParseValue(s, 1, d)
    IN  IF r.ok /\ SkipWs(s, r.pos) # Len(s) + 1 THEN PFail ELSE r

json_loads(s) == ParseWhole(s, "json")

\* ast.literal_eval: the text is parsed, and evaluated if it parses.
literal_eval(s) == IF ParseWhole(s, "ast").ok THEN ParseWhole(s, "py") ELSE PFail

\* ------------------------------------------------------- regex helpers

\* re.search(open .* close, s) with DOTALL: from the first `open` to the
\* last `close` after it; "" stands for "no match" (a match is never empty).
GreedySpan(s, open, close) ==
    LET p == Find(s, open)
        e == RFind(s, close)
    IN  IF p > 0 /\ e > p THEN Sub(s, p, e) ELSE ""

\* A TLA+ string cannot hold the backquote character: the model's texts
\* write "^" for it, so "^^^" is a markdown code fence.
FenceJson == "^^^json"

Fence == "^^^"

\* Whether r"^^^json\s*|\s*^^^" matches at position i of s.
FenceAt(s, i) == StartsAt(s, i, FenceJson) \/ StartsAt(s, SkipWs(s, i), Fence)

RECURSIVE StripFencesFrom(_, _)
\* re.sub(r"^^^json\s*|\s*^^^", "", s) from position i on: the leftmost
\* match is removed, its first alternative tried before its second.
StripFencesFrom(s, i) ==
    IF \A j \in i..Len(s) : ~FenceAt(s, j) THEN Sub(s, i, Len(s))
    ELSE LET m == Least({j \in i..Len(s) : FenceAt(s, j)})
         IN  Sub(s, i, m - 1)
             \o StripFencesFrom(s, IF StartsAt(s, m, FenceJson)
                                   THEN SkipWs(s, m + Len(FenceJson))
                                   ELSE SkipWs(s, m) + Len(Fence))

StripFences(s) == StripFencesFrom(s, 1)

\* ------------------------------------------------------------- utils.py

\* A function's outcome: a value, None, or a raised exception (err: its
\* message).
RetVal(x) == [kind |-> "value", val |-> x, err |-> ""]

RetNone == [kind |-> "none", val |-> JNone, err |-> ""]

Raise(msg) == [kind |-> "raise", val |-> JNone, err |-> msg]

\* safe_literal_eval, given what ast.literal_eval makes of the text: its
\* value; None after a SyntaxError or a ValueError (the retry on the
\* sanitized string differs from the first try only for texts with an
\* apostrophe between two word characters, which the model's texts do not
\* hold); any other exception is not caught.
Evaluated(r) ==
    IF r.ok THEN RetVal(r.val)
    ELSE IF r.err \in {"syntax", "ValueError"} THEN RetNone
    ELSE Raise(r.err)

safe_literal_eval(list_string) == Evaluated(literal_eval(list_string))

\* A variant of MatchingBracket that takes the last "]" of the text.
MatchingBracket_Last(s, i, count) == RFind(s, "]")

RECURSIVE MatchingBracket(_, _, _)
\* The position of the "]" that brings the bracket count back to 0,
\* scanning from i with `count` brackets open (0: the loop ran out).
MatchingBracket(s, i, count) ==
    IF i > Len(s) THEN 0
    ELSE LET c == Ch(s, i)
             n == IF c = "[" THEN count + 1 ELSE IF c = "]" THEN count - 1 ELSE count
         IN  IF n = 0 THEN i ELSE MatchingBracket(s, i + 1, n)

\* extract_list, lines 47-53: the bracketed text as a literal, [] when it
\* is none; what safe_literal_eval raises goes through.
FoundList(found_list) == IF found_list.kind = "none" THEN RetVal(JList(<<>>)) ELSE found_list

\* extract_list, lines 29-53: the text from the first "[" (at start, 0
\* when there is none) to the "]" that closes it (at end, 0 when it is
\* never closed).
BracketedList(input_string, start, end) ==
    IF start = 0 THEN RetVal(JList(<<>>))
    ELSE IF end = 0 THEN RetVal(JList(<<>>))
    ELSE FoundList(safe_literal_eval(Sub(input_string, start, end)))

\* extract_list, given what json.loads made of the whole text.
ExtractListFrom(input_string, whole, start) ==
    IF whole.ok THEN RetVal(whole.val)
    ELSE BracketedList(input_string, start, MatchingBracket(input_string, start, 0))

\* extract_list: its outcome, the value it returns (whatever json.loads
\* gives when the text is valid JSON, else the bracketed literal, else [])
\* or the exception that leaves it.
extract_list(input_string) ==
    ExtractListFrom(input_string, json_loads(input_string), Find(input_string, "["))

\* -------------------------------------------------------- Python values

\* bool(x) of a parsed value.
Truthy(x) ==
    CASE x.t = "str" -> x.s # ""
      [] x.t = "num" -> \E i \in 1..Len(x.s) : Ch(x.s, i) # "0"
      [] x.t = "lit" -> x.s = "true"
      [] OTHER -> x.q # <<>>

\* iter(x): a list's items, a dict's keys, a string's characters, as
\* values; ok is FALSE for a value that is not iterable (TypeError).
Iterate(x) ==
    CASE x.t = "list" -> [ok |-> TRUE, q |-> x.q]
      [] x.t = "dict" -> [ok |-> TRUE, q |-> [i \in 1..Len(x.q) |-> JStr(x.q[i].k)]]
      [] x.t = "str" -> [ok |-> TRUE, q |-> [i \in 1..Len(x.s) |-> JStr(Ch(x.s, i))]]
      [] OTHER -> [ok |-> FALSE, q |-> <<>>]

\* type(x).__name__
TypeName(x) ==
    CASE x.t = "str" -> "str" [] x.t = "num" -> "int" [] x.t = "list" -> "list"
      [] x.t = "dict" -> "dict" [] x.s = "null" -> "NoneType" [] OTHER -> "bool"

RECURSIVE SelectSeq2(_, _, _)
\* The subsequence of the q[i] for which keep[i] holds, from position i.
SelectSeq2(q, keep, i) ==
    IF i > Len(q) THEN <<>>
    ELSE (IF keep[i] THEN <<q[i]>> ELSE <<>>) \o SelectSeq2(q, keep, i + 1)

\* -------------------------------------------------------- topic_tree.py

\* validate_and_clean_response, line 31: the stripped non-empty items of
\* the iteration `it` over topics.
StripEach(topics, it, bad) ==
    IF ~it.ok THEN Raise("'" \o TypeName(topics) \o "' object is not iterable")
    ELSE IF bad # {} THEN
        LET b == CHOOSE i \in bad : \A j \in bad : i <= j
        IN  Raise("'" \o TypeName(it.q[b]) \o "' object has no attribute 'strip'")
    ELSE RetVal(JList(SelectSeq2([i \in 1..Len(it.q) |-> JStr(Strip(it.q[i].s))],
                                 [i \in 1..Len(it.q) |-> Strip(it.q[i].s) # ""], 1)))

NonStrings(q) == {i \in 1..Len(q) : q[i].t # "str"}

\* validate_and_clean_response, lines 29-32: the fallback on extract_list.
StrippedTopics(topics) ==
    IF ~Truthy(topics) THEN RetNone
    ELSE StripEach(topics, Iterate(topics), NonStrings(Iterate(topics).q))

\* validate_and_clean_response, lines 26, 33-35: json.loads of the match.
ParsedOrNone(parsed) == IF parsed.ok THEN RetVal(parsed.val) ELSE RetNone

\* validate_and_clean_response, lines 29-32, given extract_list's outcome.
Fallback(topics) == IF topics.kind = "raise" THEN topics ELSE StrippedTopics(topics.val)

CleanResponse(response_text, json_match) ==
    IF json_match # "" THEN ParsedOrNone(json_loads(StripFences(json_match)))
    ELSE Fallback(extract_list(response_text))

\* validate_and_clean_response: the JSON array found by the regex, parsed
\* (None when it does not parse); with no bracket pair in the text, the
\* stripped non-empty items of extract_list's result.
validate_and_clean_response(response_text) ==
    CleanResponse(response_text, GreedySpan(response_text, "[", "]"))

\* ----------------------------------------------------------- dataset.py

\* key in d, d[key] for a parsed object.
DictHas(d, key) == \E i \in 1..Len(d.q) : d.q[i].k = key

DictGet(d, key) == d.q[CHOOSE i \in 1..Len(d.q) : d.q[i].k = key].val

\* d[key] = val for a key the object holds.
DictSet(d, key, val) ==
    JDict([i \in 1..Len(d.q) |-> IF d.q[i].k = key THEN [k |-> key, val |-> val] ELSE d.q[i]])

Roles == {"user", "assistant", "system"}

\* `key in message`: a key of an object, a substring of a string, an item
\* of a list.
KeyIn(message, key) ==
    CASE message.t = "dict" -> DictHas(message, key)
      [] message.t = "str" -> Contains(message.s, key)
      [] message.t = "list" -> \E i \in 1..Len(message.q) : message.q[i] = JStr(key)
      [] OTHER -> FALSE

\* validate_sample for one message without the test of the role's value.
CheckMessage_AnyRole(message) ==
    IF message.t \in {"num", "lit"} THEN "raise"
    ELSE IF ~KeyIn(message, "role") \/ ~KeyIn(message, "content") THEN "invalid"
    ELSE IF message.t # "dict" THEN "raise"
    ELSE IF DictGet(message, "content").t # "str" THEN "invalid"
    ELSE "ok"

\* validate_sample, lines 92-99, for one message: "ok", "invalid" (return
\* False) or "raise" (a TypeError: `in` on a number, message["role"] on a
\* string or a list).
CheckMessage(message) ==
    IF message.t \in {"num", "lit"} THEN "raise"
    ELSE IF ~KeyIn(message, "role") \/ ~KeyIn(message, "content") THEN "invalid"
    ELSE IF message.t # "dict" THEN "raise"
    ELSE IF DictGet(message, "role").t # "str" \/ DictGet(message, "role").s \notin Roles
         THEN "invalid"
    ELSE IF DictGet(message, "content").t # "str" THEN "invalid"
    ELSE "ok"

RECURSIVE CheckMessagesFrom(_, _)
\* validate_sample, the loop over the messages from the i-th on.
CheckMessagesFrom(q, i) ==
    IF i > Len(q) THEN "valid"
    ELSE IF CheckMessage(q[i]) = "ok" THEN CheckMessagesFrom(q, i + 1)
    ELSE CheckMessage(q[i])

CheckMessages(it) == IF ~it.ok THEN "raise" ELSE CheckMessagesFrom(it.q, 1)

\* Dataset.validate_sample: "valid" (True), "invalid" (False) or "raise".
validate_sample(sample) ==
    IF ~DictHas(sample, "messages") THEN "invalid"
    ELSE CheckMessages(Iterate(DictGet(sample, "messages")))

RECURSIVE JoinReprs(_, _, _)
RECURSIVE PyRepr(_)
\* repr(x) of a parsed value, as the f-string of add_samples prints it.
PyRepr(x) ==
    CASE x.t = "str" -> IF Contains(x.s, SQ) /\ ~Contains(x.s, DQ)
                        THEN DQ \o x.s \o DQ ELSE SQ \o x.s \o SQ
      [] x.t = "num" -> x.s
      [] x.t = "lit" -> (IF x.s = "null" THEN "None" ELSE IF x.s = "true" THEN "True" ELSE "False")
      [] x.t = "list" -> "[" \o JoinReprs(x.q, 1, FALSE) \o "]"
      [] OTHER -> "{" \o JoinReprs(x.q, 1, TRUE) \o "}"

\* The reprs of the items (or of the key: value members) from the i-th on.
JoinReprs(q, i, members) ==
    IF i > Len(q) THEN ""
    ELSE (IF i > 1 THEN ", " ELSE "")
         \o (IF members THEN PyRepr(JStr(q[i].k)) \o ": " \o PyRepr(q[i].val) ELSE PyRepr(q[i]))
         \o JoinReprs(q, i + 1, members)

InvalidSampleDescription(sample) == "Invalid sample format: " \o PyRepr(sample)

\* The TypeError validate_sample raises on the message it cannot read.
MessageError(message) ==
    CASE message.t \in {"num", "lit"} ->
            "argument of type '" \o TypeName(message) \o "' is not iterable"
      [] message.t = "str" -> "string indices must be integers, not 'str'"
      [] OTHER -> "list indices must be integers or slices, not str"

\* The message of the TypeError of validate_sample(sample), for a sample on
\* which it raises.
ValidateError(sample) ==
    LET it == Iterate(DictGet(sample, "messages"))
    IN  IF ~it.ok THEN "'" \o TypeName(DictGet(sample, "messages")) \o "' object is not iterable"
        ELSE MessageError(it.q[CHOOSE i \in 1..Len(it.q) :
                               /\ CheckMessage(it.q[i]) = "raise"
                               /\ \A j \in 1..(i - 1) : CheckMessage(it.q[j]) = "ok"])

\* The result of add_samples so far: the dataset's two lists, the two
\* lists it returns, and the exception validate_sample raised, if any.
AddResult(samples, ds_failed, failed, descs, error) ==
    [samples |-> samples, ds_failed |-> ds_failed, failed |-> failed, descs |-> descs,
     error |-> error]

\* add_samples, lines 116-121, for one sample with its validation verdict.
AddOne(acc, sample, verdict) ==
    CASE verdict = "valid" ->
            AddResult(Append(acc.samples, sample), acc.ds_failed, acc.failed, acc.descs,
                      acc.error)
      [] verdict = "invalid" ->
            AddResult(acc.samples, Append(acc.ds_failed, sample), Append(acc.failed, sample),
                      Append(acc.descs, InvalidSampleDescription(sample)), acc.error)
      [] OTHER -> AddResult(acc.samples, acc.ds_failed, acc.failed, acc.descs,
                            [some |-> TRUE, msg |-> ValidateError(sample)])

RECURSIVE AddSamplesFrom(_, _, _)
\* add_samples, the loop from the i-th sample on; it stops where
\* validate_sample raises, keeping what was appended before.
AddSamplesFrom(new, i, acc) ==
    IF i > Len(new) \/ acc.error.some THEN acc
    ELSE AddSamplesFrom(new, i + 1, AddOne(acc, new[i], validate_sample(new[i])))

\* Dataset.add_samples on a dataset holding (samples, ds_failed).
add_samples(samples, ds_failed, new) ==
    AddSamplesFrom(new, 1, AddResult(samples, ds_failed, <<>>, <<>>,
                                     [some |-> FALSE, msg |-> ""]))

EscapeCh(c) ==
    CASE c = DQ -> "\\\"" [] c = "\\" -> "\\\\" [] c = "\n" -> "\\n"
      [] c = "\t" -> "\\t" [] c = "\r" -> "\\r" [] OTHER -> c

\* The characters of s, each escaped as json.dumps escapes it.
Escaped(s) == Concat([i \in 1..Len(s) |-> EscapeCh(Ch(s, i))], 1, Len(s))

RECURSIVE JoinDumps(_, _, _)
RECURSIVE json_dumps(_)
\* json.dumps(x) with its default separators.
json_dumps(x) ==
    CASE x.t = "str" -> DQ \o Escaped(x.s) \o DQ
      [] x.t \in {"num", "lit"} -> x.s
      [] x.t = "list" -> "[" \o JoinDumps(x.q, 1, FALSE) \o "]"
      [] OTHER -> "{" \o JoinDumps(x.q, 1, TRUE) \o "}"

JoinDumps(q, i, members) ==
    IF i > Len(q) THEN ""
    ELSE (IF i > 1 THEN ", " ELSE "")
         \o (IF members THEN json_dumps(JStr(q[i].k)) \o ": " \o json_dumps(q[i].val)
             ELSE json_dumps(q[i]))
         \o JoinDumps(q, i + 1, members)

\* The first position at or after i that holds whitespace or is past s.
WordEnd(s, i) == Least({j \in i..Len(s) : Ch(s, j) \in WS} \cup {Len(s) + 1})

RECURSIVE JoinWords(_, _, _)
\* " ".join(s.split()) from position i on, after the words in out.
JoinWords(s, i, out) ==
    IF SkipWs(s, i) > Len(s) THEN out
    ELSE JoinWords(s, WordEnd(s, SkipWs(s, i)),
                   (IF out = "" THEN "" ELSE out \o " ")
                   \o Sub(s, SkipWs(s, i), WordEnd(s, SkipWs(s, i)) - 1))

\* Dataset.remove_linebreaks_and_spaces: every run of whitespace becomes
\* one space and the ends are trimmed.
remove_linebreaks_and_spaces(input_string) == JoinWords(input_string, 1, "")

\* Dataset.save: the lines written to the file, one per sample.
SaveLines(samples) ==
    [i \in 1..Len(samples) |-> remove_linebreaks_and_spaces(json_dumps(samples[i]))]

\* ------------------------------------------------------------ engine.py

\* validate_json_response, lines 30-42: the match without its fences, parsed
\* by json.loads; None when it does not parse.
LoadsOrNone(parsed) == IF parsed.ok THEN RetVal(parsed.val) ELSE RetNone

MatchedJson(json_match) ==
    IF json_match = "" THEN RetNone ELSE LoadsOrNone(json_loads(StripFences(json_match)))

\* validate_json_response(json_str) with no schema.
validate_json_response(json_str) == MatchedJson(GreedySpan(json_str, "{", "}"))

FailureTypes ==
    {"json_parsing_errors", "invalid_schema", "api_errors", "empty_responses",
     "malformed_responses", "other_errors"}

ApiErrorWords == {"timeout", "rate limit", "connection"}

\* An optional exception: its message when there is one.
NoError == [some |-> FALSE, msg |-> ""]

Error(msg) == [some |-> TRUE, msg |-> msg]

\* A variant of ErrorType that looks for the API words first.
ErrorType_ApiFirst(error_str) ==
    IF \E api_err \in ApiErrorWords : Contains(error_str, api_err) THEN "api_errors"
    ELSE IF Contains(error_str, "schema") THEN "invalid_schema"
    ELSE "other_errors"

\* analyze_failure, lines 92-100: the type of an exception whose text in
\* lower case is error_str.
ErrorType(error_str) ==
    IF Contains(error_str, "schema") THEN "invalid_schema"
    ELSE IF \E api_err \in ApiErrorWords : Contains(error_str, api_err) THEN "api_errors"
    ELSE "other_errors"

\* DataEngine.analyze_failure(response_content, error)
analyze_failure(response_content, error) ==
    IF error.some THEN ErrorType(Lower(error.msg))
    ELSE IF response_content = "" \/ IsSpace(response_content) THEN "empty_responses"
    ELSE IF \E char \in {"{", "}", "[", "]"} : Contains(response_content, char)
         THEN "json_parsing_errors"
    ELSE "malformed_responses"

\* EngineArguments.system_prompt and prompts.ENGINE_JSON_INSTRUCTIONS (its
\* text shortened).
system_prompt == "Be kind."

ENGINE_JSON_INSTRUCTIONS == "You are an expert JSON builder. "

original_system_prompt == system_prompt

generation_system_prompt == ENGINE_JSON_INSTRUCTIONS \o system_prompt

\* The message create_data inserts, lines 218-221.
SystemMessage ==
    JDict(<<[k |-> "role", val |-> JStr("system")],
            [k |-> "content", val |-> JStr(original_system_prompt)]>>)

\* What the handling of a batch of responses has done so far: the local
\* list samples, the engine's failure records, and the exception that
\* stopped it, if any.
Handled(samples, failed, analysis, error) ==
    [samples |-> samples, failed_samples |-> failed, failure_analysis |-> analysis,
     error |-> error]

\* A variant of Filed that puts the item in place of the list.
Filed_Replacing(analysis, failure_type, item) ==
    [analysis EXCEPT ![failure_type] = <<item>>]

\* failure_analysis[failure_type].append(item)
Filed(analysis, failure_type, item) ==
    [analysis EXCEPT ![failure_type] = Append(@, item)]

\* A variant of HandleOne that drops a response it cannot parse without
\* recording it.
HandleOne_Dropping(acc, response_content, parsed_json, include_sys_msg) ==
    IF parsed_json.kind = "value" /\ Truthy(parsed_json.val) THEN
        IF include_sys_msg /\ DictHas(parsed_json.val, "messages") THEN
            IF DictGet(parsed_json.val, "messages").t # "list"
            THEN Handled(acc.samples, acc.failed_samples, acc.failure_analysis,
                         Error("'" \o TypeName(DictGet(parsed_json.val, "messages"))
                               \o "' object has no attribute 'insert'"))
            ELSE Handled(Append(acc.samples,
                                DictSet(parsed_json.val, "messages",
                                        JList(<<SystemMessage>>
                                              \o DictGet(parsed_json.val, "messages").q))),
                         acc.failed_samples, acc.failure_analysis, NoError)
        ELSE Handled(Append(acc.samples, parsed_json.val), acc.failed_samples,
                     acc.failure_analysis, NoError)
    ELSE Handled(acc.samples, acc.failed_samples, acc.failure_analysis, NoError)

\* create_data, lines 215-232, for one response and its parsed_json.
HandleOne(acc, response_content, parsed_json, include_sys_msg) ==
    IF parsed_json.kind = "value" /\ Truthy(parsed_json.val) THEN
        IF include_sys_msg /\ DictHas(parsed_json.val, "messages") THEN
            IF DictGet(parsed_json.val, "messages").t # "list"
            THEN Handled(acc.samples, acc.failed_samples, acc.failure_analysis,
                         Error("'" \o TypeName(DictGet(parsed_json.val, "messages"))
                               \o "' object has no attribute 'insert'"))
            ELSE Handled(Append(acc.samples,
                                DictSet(parsed_json.val, "messages",
                                        JList(<<SystemMessage>>
                                              \o DictGet(parsed_json.val, "messages").q))),
                         acc.failed_samples, acc.failure_analysis, NoError)
        ELSE Handled(Append(acc.samples, parsed_json.val), acc.failed_samples,
                     acc.failure_analysis, NoError)
    ELSE Handled(acc.samples, Append(acc.failed_samples, JStr(response_content)),
                 Filed(acc.failure_analysis, analyze_failure(response_content, NoError),
                       response_content),
                 NoError)

RECURSIVE HandleFrom(_, _, _, _, _)
\* create_data, the loop of lines 211-232 from the i-th response on;
\* parsed[i] is validate_json_response(responses[i]).
HandleFrom(responses, parsed, i, acc, include_sys_msg) ==
    IF i > Len(responses) \/ acc.error.some THEN acc
    ELSE HandleFrom(responses, parsed, i + 1,
                    HandleOne(acc, responses[i], parsed[i], include_sys_msg),
                    include_sys_msg)

RECURSIVE FiledAll(_, _, _, _)
\* failure_analysis[failure_type] extended by the items from the i-th on.
FiledAll(analysis, failure_type, items, i) ==
    IF i > Len(items) THEN analysis
    ELSE FiledAll(Filed(analysis, failure_type, items[i]), failure_type, items, i + 1)

\* ------------------------------------------------------------- bounds

\* tree_degree ranges over 0..MaxDegree, tree_depth over 0..MaxDepth, and
\* only trees with at most MaxLeaves leaves are built.
MaxDegree == 3

MaxDepth == 2

MaxLeaves == 4

RECURSIVE Pow(_, _)
\* b ** e as Python computes it (0 ** 0 = 1).
Pow(b, e) == IF e = 0 THEN 1 ELSE b * Pow(b, e - 1)

\* ---------------------------------------------------------------- state

VARIABLES
    \* TopicTree: its arguments and fields
    tree_degree, tree_depth, tree_paths, failed_generations,
    \* build_tree in progress: the frames of build_subtree (the innermost
    \* last) and the locals of the get_subtopics call of the innermost one
    tpc, stack, retries, last_error,
    \* what the completion backend did so far (history)
    tcalls, allGood, claimGood, allFail, expFails,
    \* the arguments of time.sleep in the operation in progress (history)
    sleeps,
    \* DataEngine: its fields, args.max_retries and args.sys_msg
    model_name, max_retries, sys_msg, failed_samples, failure_analysis,
    \* DataEngine.dataset: Dataset.samples and Dataset.failed_samples
    samples, ds_failed_samples,
    \* the files Dataset.save wrote
    files,
    \* create_data in progress: where it is, its arguments and its locals
    pc, num_steps, batch_size, include_sys_msg, drawn_paths, step, attempt, prompts,
    \* the exception create_data raised: where it arose and what the caller got
    thrown, exc,
    \* what happened in this call of create_data (history)
    requested, calls, allValid, cur, done, lastCall,
    \* a call of analyze_failure: its arguments and what it returned
    analyzed_content, analyzed_error, analyzed_type,
    \* a call of TopicTreeValidator.validate_configuration: its arguments
    \* and its outcome
    validated, validation,
    \* the last operation on a Dataset: the call, the message of the
    \* exception it raised ("" for none) and what it returned; the samples
    \* each file was saved from (history)
    ds_call, ds_raised, ds_returned, written,
    \* a call of a list extractor: the function with its argument, and its
    \* outcome
    extract_input, extracted,
    \* what summarize_failures returned
    summary,
    \* the argument of the last TopicTree.from_dict_list, and how many
    \* paths and failed generations the tree held before it (history)
    loaded,
    \* a run of the command `start` of the CLI: where it is, its options,
    \* the stages it called, what it printed and its exit code
    cli

treeVars == <<tree_degree, tree_depth, tree_paths, failed_generations, tpc, stack,
              retries, last_error, tcalls, allGood, claimGood, allFail, expFails>>

engineVars == <<model_name, max_retries, sys_msg, failed_samples, failure_analysis,
                samples, ds_failed_samples, files, pc, num_steps, batch_size,
                include_sys_msg, drawn_paths, step, attempt, prompts, thrown, exc,
                requested, calls, allValid, cur, done, lastCall>>

analysisVars == <<analyzed_content, analyzed_error, analyzed_type>>

validatorVars == <<validated, validation>>

datasetVars == <<ds_call, ds_raised, ds_returned, written>>

extractVars == <<extract_input, extracted>>

utilVars == <<validatorVars, datasetVars, extractVars, summary, loaded, cli>>

vars == <<treeVars, sleeps, engineVars, analysisVars, utilVars>>

root_prompt == "Root"

\* get_subtopics: max_retries
TreeMaxRetries == 3

InsufficientError == "Insufficient valid subtopics generated"

\* --------------------------------------------- the completion backend

\* What one completion call for subtopics can do: raise, or return a
\* text.  Each text is listed with what it was built from: its form and
\* the valid (non-blank string) subtopics it lists, in order.
\*   array: a JSON array, possibly inside prose     empty: the array []
\*   pylist: a Python list of single-quoted strings prose: no list at all
\*   jsonstr: one JSON string
TreeReplies ==
    { [form |-> "array", labels |-> <<"a", "b", "c", "d", "e">>, err |-> "",
       text |-> "[\"a\", \"b\", \"c\", \"d\", \"e\"]"],
      [form |-> "array", labels |-> <<"x", "y", "z", "u", "v">>, err |-> "",
       text |-> "Sure: [\" x \", \"\", 7, \"y\", \"z\",\n \"u\", \" \", \"v\"] ok"],
      [form |-> "array", labels |-> <<"a">>, err |-> "",
       text |-> "[\"a\"]"],
      [form |-> "empty", labels |-> <<>>, err |-> "",
       text |-> "[]"],
      [form |-> "pylist", labels |-> <<"a", "b", "c", "d", "e">>, err |-> "",
       text |-> "['a', 'b', 'c', 'd', 'e']"],
      [form |-> "prose", labels |-> <<>>, err |-> "",
       text |-> "I cannot help with that."],
      [form |-> "jsonstr", labels |-> <<>>, err |-> "",
       text |-> "\"abcde\""],
      [form |-> "raise", labels |-> <<>>, err |-> "Connection refused", text |-> ""],
      [form |-> "raise", labels |-> <<>>, err |-> "Request timeout", text |-> ""] }

\* The reply lists at least n valid subtopics in a JSON array.
ListsEnough(r, n) == r.form \in {"array", "empty"} /\ Len(r.labels) >= n

\* The same, in an array that is not empty.
ListsEnoughNonEmpty(r, n) == r.form = "array" /\ Len(r.labels) >= n

\* The call failed: it raised, or its text holds no JSON array with n
\* valid subtopics.
ReplyFails(r, n) ==
    \/ r.form \in {"raise", "pylist", "prose", "empty"}
    \/ r.form = "array" /\ Len(r.labels) < n

\* The error a failed call leaves behind.
ReplyError(r) == IF r.form = "raise" THEN r.err ELSE InsufficientError

\* ------------------------------------------------------- TopicTree

Frame(path, depth) ==
    [node_path |-> path, subtree_depth |-> depth, stage |-> "enter",
     subnodes |-> <<>>, i |-> 1, result |-> <<>>]

Top == stack[Len(stack)]

SetTop(f) == [stack EXCEPT ![Len(stack)] = f]

\* A variant of CleanedSubtopics that keeps the blank strings.
CleanedSubtopics_KeepBlank(subtopics) ==
    LET q == subtopics.q
    IN  SelectSeq2([i \in 1..Len(q) |-> Strip(q[i].s)],
                   [i \in 1..Len(q) |-> q[i].t = "str"], 1)

\* get_subtopics, one attempt: the cleaned subtopics of a response, or a
\* failure with its error text.
CleanedSubtopics(subtopics) ==
    LET q == subtopics.q
    IN  SelectSeq2([i \in 1..Len(q) |-> Strip(q[i].s)],
                   [i \in 1..Len(q) |-> q[i].t = "str" /\ Strip(q[i].s) # ""], 1)

AttemptFailed(err) == [ok |-> FALSE, topics |-> <<>>, err |-> err]

\* A variant of AcceptEnough that forgets the cut to num_subtopics.
AcceptEnough_Uncut(cleaned_subtopics, num_subtopics) ==
    IF Len(cleaned_subtopics) >= num_subtopics
    THEN [ok |-> TRUE, topics |-> cleaned_subtopics, err |-> ""]
    ELSE AttemptFailed(InsufficientError)

\* get_subtopics, lines 196-199.
AcceptEnough(cleaned_subtopics, num_subtopics) ==
    IF Len(cleaned_subtopics) >= num_subtopics
    THEN [ok |-> TRUE, topics |-> SubSeq(cleaned_subtopics, 1, num_subtopics), err |-> ""]
    ELSE AttemptFailed(InsufficientError)

\* get_subtopics, lines 182-203, given what validate_and_clean_response
\* made of the response.
AttemptResult(subtopics, num_subtopics) ==
    IF subtopics.kind = "raise" THEN AttemptFailed(subtopics.err)
    ELSE IF subtopics.kind = "value" /\ Truthy(subtopics.val) /\ subtopics.val.t = "list"
         THEN AcceptEnough(CleanedSubtopics(subtopics.val), num_subtopics)
    ELSE AttemptFailed(InsufficientError)

\* get_subtopics, one attempt (lines 171-206).
AttemptOutcome(reply, num_subtopics) ==
    IF reply.form = "raise" THEN AttemptFailed(reply.err)
    ELSE AttemptResult(validate_and_clean_response(reply.text), num_subtopics)

\* A variant of default_subtopics that numbers the labels from 0.
default_subtopics_FromZero(node_path, num_subtopics) ==
    [i \in 1..num_subtopics |->
        "subtopic_" \o ToString(i - 1) \o "_for_" \o node_path[Len(node_path)]]

\* get_subtopics, after the last failed attempt: the placeholder labels.
default_subtopics(node_path, num_subtopics) ==
    [i \in 1..num_subtopics |->
        "subtopic_" \o ToString(i) \o "_for_" \o node_path[Len(node_path)]]

\* build_tree: start the recursion at the root.
build_tree ==
    /\ tpc = "idle"
    /\ tpc' = "building"
    /\ stack' = <<Frame(<<root_prompt>>, tree_depth)>>
    /\ UNCHANGED <<tree_degree, tree_depth, tree_paths, failed_generations, retries,
                   last_error, tcalls, allGood, claimGood, allFail, expFails, sleeps>>
    /\ UNCHANGED <<engineVars, analysisVars, utilVars>>

\* A variant of ReturnPaths in which the caller puts the paths of a child
\* before those it already has.
ReturnPaths_Prepended(paths) ==
    IF Len(stack) = 1
    THEN /\ tree_paths' = paths
         /\ stack' = <<>>
         /\ tpc' = "done"
    ELSE LET caller == stack[Len(stack) - 1]
         IN  /\ stack' = [SubSeq(stack, 1, Len(stack) - 1) EXCEPT ![Len(stack) - 1] =
                            [caller EXCEPT !.result = paths \o caller.result, !.i = caller.i + 1]]
             /\ UNCHANGED <<tree_paths, tpc>>

\* A frame returns `paths` to its caller: the caller extends its result
\* and moves to its next subnode; the outermost return ends build_tree.
ReturnPaths(paths) ==
    IF Len(stack) = 1
    THEN /\ tree_paths' = paths
         /\ stack' = <<>>
         /\ tpc' = "done"
    ELSE LET caller == stack[Len(stack) - 1]
         IN  /\ stack' = [SubSeq(stack, 1, Len(stack) - 1) EXCEPT ![Len(stack) - 1] =
                            [caller EXCEPT !.result = caller.result \o paths, !.i = caller.i + 1]]
             /\ UNCHANGED <<tree_paths, tpc>>

\* build_subtree, entry: a leaf returns its own path, any other node
\* starts get_subtopics.
build_subtree_enter ==
    /\ tpc = "building"
    /\ Top.stage = "enter"
    /\ IF Top.subtree_depth = 0
       THEN /\ ReturnPaths(<<Top.node_path>>)
            /\ UNCHANGED <<retries, last_error, sleeps>>
       ELSE /\ stack' = SetTop([Top EXCEPT !.stage = "subtopics"])
            /\ retries' = 0
            /\ last_error' = "No error recorded"
            /\ sleeps' = <<>>
            /\ UNCHANGED <<tree_paths, tpc>>
    /\ UNCHANGED <<tree_degree, tree_depth, failed_generations, tcalls, allGood,
                   claimGood, allFail, expFails>>
    /\ UNCHANGED <<engineVars, analysisVars, utilVars>>

\* A variant of AfterAttempt that waits after the last failed attempt too.
AfterAttempt_WaitsAfterLast(reply, out) ==
    IF out.ok
    THEN /\ stack' = SetTop([Top EXCEPT !.stage = "children", !.subnodes = out.topics])
         /\ UNCHANGED <<retries, last_error, failed_generations, expFails, sleeps>>
    ELSE /\ retries' = retries + 1
         /\ last_error' = out.err
         /\ sleeps' = Append(sleeps, Pow(2, retries + 1))
         /\ IF retries + 1 >= TreeMaxRetries
            THEN /\ failed_generations' = Append(failed_generations,
                        [path |-> Top.node_path, attempts |-> retries + 1,
                         last_error |-> out.err])
                 /\ expFails' = Append(expFails,
                        [path |-> Top.node_path, attempts |-> TreeMaxRetries,
                         last_error |-> ReplyError(reply)])
                 /\ stack' = SetTop([Top EXCEPT !.stage = "children",
                        !.subnodes = default_subtopics(Top.node_path, tree_degree)])
            ELSE UNCHANGED <<failed_generations, expFails, stack>>

\* get_subtopics, lines 186-222: what follows an attempt with outcome out.
AfterAttempt(reply, out) ==
    IF out.ok
    THEN /\ stack' = SetTop([Top EXCEPT !.stage = "children", !.subnodes = out.topics])
         /\ UNCHANGED <<retries, last_error, failed_generations, expFails, sleeps>>
    ELSE /\ retries' = retries + 1
         /\ last_error' = out.err
         /\ sleeps' = IF retries + 1 < TreeMaxRetries
                      THEN Append(sleeps, Pow(2, retries + 1)) ELSE sleeps
         /\ IF retries + 1 >= TreeMaxRetries
            THEN /\ failed_generations' = Append(failed_generations,
                        [path |-> Top.node_path, attempts |-> retries + 1,
                         last_error |-> out.err])
                 /\ expFails' = Append(expFails,
                        [path |-> Top.node_path, attempts |-> TreeMaxRetries,
                         last_error |-> ReplyError(reply)])
                 /\ stack' = SetTop([Top EXCEPT !.stage = "children",
                        !.subnodes = default_subtopics(Top.node_path, tree_degree)])
            ELSE UNCHANGED <<failed_generations, expFails, stack>>

\* get_subtopics, one pass of its retry loop: one completion call and what
\* follows it, up to the return of the subtopics or of the placeholders.
get_subtopics_attempt(reply) ==
    /\ tpc = "building"
    /\ Top.stage = "subtopics"
    /\ retries < TreeMaxRetries
    /\ tcalls' = tcalls + 1
    /\ allGood' = (allGood /\ ListsEnoughNonEmpty(reply, tree_degree))
    /\ claimGood' = (claimGood /\ ListsEnough(reply, tree_degree))
    /\ allFail' = (allFail /\ ReplyFails(reply, tree_degree))
    /\ AfterAttempt(reply, AttemptOutcome(reply, tree_degree))
    /\ UNCHANGED <<tree_degree, tree_depth, tree_paths, tpc>>
    /\ UNCHANGED <<engineVars, analysisVars, utilVars>>

\* build_subtree, the loop over the subnodes: recurse into the next one.
build_subtree_child ==
    /\ tpc = "building"
    /\ Top.stage = "children"
    /\ Top.i <= Len(Top.subnodes)
    /\ stack' = Append(stack, Frame(Append(Top.node_path, Top.subnodes[Top.i]),
                                    Top.subtree_depth - 1))
    /\ UNCHANGED <<tree_degree, tree_depth, tree_paths, failed_generations, tpc, retries,
                   last_error, tcalls, allGood, claimGood, allFail, expFails, sleeps>>
    /\ UNCHANGED <<engineVars, analysisVars, utilVars>>

\* build_subtree, after the loop: return the collected paths.
build_subtree_return ==
    /\ tpc = "building"
    /\ Top.stage = "children"
    /\ Top.i > Len(Top.subnodes)
    /\ ReturnPaths(Top.result)
    /\ UNCHANGED <<tree_degree, tree_depth, failed_generations, retries, last_error,
                   tcalls, allGood, claimGood, allFail, expFails, sleeps>>
    /\ UNCHANGED <<engineVars, analysisVars, utilVars>>

\* -------------------------------------------------------- DataEngine

\* create_data is called with num_steps in 0..MaxSteps (or None) and
\* batch_size in 0..MaxBatch, on an engine with max_retries in
\* 0..MaxRetries and on a topic tree of at most MaxTreePaths paths.
MaxSteps == 2

MaxBatch == 2

MaxRetries == 2

MaxTreePaths == 2

\* An optional integer argument: None or n.
None == [some |-> FALSE, n |-> 0]

Some(n) == [some |-> TRUE, n |-> n]

\* The topic_tree argument: None, or a tree with these tree_paths.
NoTree == [some |-> FALSE, tree_paths |-> <<>>]

\* A tree of n paths; with_number makes the last of them hold a number,
\* as TopicTree.from_dict_list accepts it from a file.
TreeOf(n, with_number) ==
    [some |-> TRUE,
     tree_paths |-> [i \in 1..n |->
        IF with_number /\ i = n THEN <<JStr(root_prompt), JNum("7")>>
        ELSE <<JStr(root_prompt), JStr("t" \o ToString(i))>>]]

TopicTrees ==
    {NoTree} \cup {TreeOf(n, FALSE) : n \in 0..MaxTreePaths}
             \cup {TreeOf(n, TRUE) : n \in 1..MaxTreePaths}

\* The model_name argument: None (or ""), a blank name, a padded name.
ModelNameArgs == {"", "  ", " test-model "}

\* The sys_msg argument: None, True or False.
SysMsgArgs == {"None", "True", "False"}

\* random.sample(population, k): the sequences of k distinct positions.
Draws(n, k) ==
    {q \in [1..k -> 1..n] : \A i \in 1..k : \A j \in 1..k : q[i] = q[j] => i = j}

\* The response texts of the completion backend, each with the form it
\* was written to have.
SampleReplies ==
    {[form |-> "valid",
      text |-> "^^^json\n{\"messages\": [{\"role\": \"user\", \"content\": \"q\"}]}\n^^^"],
     [form |-> "valid_system",
      text |-> "{\"messages\": [{\"role\": \"system\", \"content\": \"s\"}]}"],
     [form |-> "bad_role",
      text |-> "Here: {\"messages\": [{\"role\": \"tool\", \"content\": \"x\"}]}"],
     [form |-> "no_list", text |-> "{\"messages\": 5}"],
     [form |-> "prose", text |-> "Sorry, no."]}

\* The messages of the exceptions litellm.batch_completion raises.
BackendErrors == {"Connection timeout", "boom"}

\* What a completion call does: it raises, or it returns one response for
\* each prompt.
CallRaises(msg) == [raised |-> TRUE, msg |-> msg, replies |-> <<>>]

CallReturns(replies) == [raised |-> FALSE, msg |-> "", replies |-> replies]

CallOutcomes(n) ==
    {CallRaises(msg) : msg \in BackendErrors}
        \cup {CallReturns(replies) : replies \in [1..n -> SampleReplies]}

\* The replies that parse to a non-empty object, and the ones that are a
\* valid sample.
ParsingForms == {"valid", "valid_system", "bad_role", "no_list"}

ValidForms == {"valid", "valid_system"}

\* validate_json_response on each text the backend can return.
ParsedReply ==
    [json_str \in {reply.text : reply \in SampleReplies} |-> validate_json_response(json_str)]

RECURSIVE JoinPath(_, _)
\* ' -> '.join(subtopic_list) from the i-th item on (all of them strings).
JoinPath(subtopic_list, i) ==
    IF i > Len(subtopic_list) THEN ""
    ELSE (IF i > 1 THEN " -> " ELSE "") \o subtopic_list[i].s \o JoinPath(subtopic_list, i + 1)

\* build_subtopics_text(subtopic_list): the text, or the TypeError of join
\* on the first item that is no string.
build_subtopics_text(subtopic_list) ==
    IF ~subtopic_list.some THEN [ok |-> TRUE, text |-> "", err |-> ""]
    ELSE IF \E i \in 1..Len(subtopic_list.path) : subtopic_list.path[i].t # "str" THEN
        LET i == CHOOSE i \in 1..Len(subtopic_list.path) :
                    /\ subtopic_list.path[i].t # "str"
                    /\ \A j \in 1..(i - 1) : subtopic_list.path[j].t = "str"
        IN  [ok |-> FALSE, text |-> "",
             err |-> "sequence item " \o ToString(i - 1) \o ": expected str instance, "
                     \o TypeName(subtopic_list.path[i]) \o " found"]
    ELSE [ok |-> TRUE, err |-> "",
          text |-> "\nLastly, the topic of the training data should be related to the following subtopics: "
                   \o JoinPath(subtopic_list.path, 1)]

\* build_prompt: SAMPLE_GENERATION_PROMPT (shortened to its placeholders for
\* the system prompt and the subtopics) filled in.
build_prompt(subtopics_text) ==
    IF subtopics_text.ok
    THEN [ok |-> TRUE, text |-> generation_system_prompt \o subtopics_text.text, err |-> ""]
    ELSE subtopics_text

NoPath == [some |-> FALSE, path |-> <<>>]

RECURSIVE PromptsFrom_FromFirst(_, _, _, _, _)
\* A variant of PromptsFrom that takes the paths of every step from the
\* first drawn path on.
PromptsFrom_FromFirst(i, start_idx, size, paths, acc) ==
    IF i >= size \/ ~acc.ok THEN acc
    ELSE IF paths.some /\ paths.q # <<>> /\ start_idx + i >= Len(paths.q) THEN acc
    ELSE PromptsFrom_FromFirst(i + 1, start_idx, size, paths,
            LET built == build_prompt(build_subtopics_text(
                            IF paths.some /\ paths.q # <<>>
                            THEN [some |-> TRUE, path |-> paths.q[i + 1]]
                            ELSE NoPath))
            IN  IF built.ok THEN [ok |-> TRUE, prompts |-> Append(acc.prompts, built.text), err |-> ""]
                ELSE [ok |-> FALSE, prompts |-> acc.prompts, err |-> built.err])

RECURSIVE PromptsFrom(_, _, _, _, _)
\* create_data, lines 183-198: the prompts of a step from slot i on, after
\* the prompts acc; it ends at the first prompt that cannot be built.
PromptsFrom(i, start_idx, size, paths, acc) ==
    IF i >= size \/ ~acc.ok THEN acc
    ELSE IF paths.some /\ paths.q # <<>> /\ start_idx + i >= Len(paths.q) THEN acc
    ELSE PromptsFrom(i + 1, start_idx, size, paths,
            LET built == build_prompt(build_subtopics_text(
                            IF paths.some /\ paths.q # <<>>
                            THEN [some |-> TRUE, path |-> paths.q[start_idx + i + 1]]
                            ELSE NoPath))
            IN  IF built.ok THEN [ok |-> TRUE, prompts |-> Append(acc.prompts, built.text), err |-> ""]
                ELSE [ok |-> FALSE, prompts |-> acc.prompts, err |-> built.err])

\* Where create_data is after a step: inside the retry loop of a step,
\* past the last step, or in the handler of an exception off the loop.
Stop(kind, at, batch, err) == [kind |-> kind, step |-> at, prompts |-> batch, err |-> err]

RECURSIVE StepFrom(_, _, _, _, _)
\* A step whose prompts are built: with max_retries = 0 its retry loop is
\* empty and the next step follows.
StepBuilt(at, built, steps, size, paths, tries) ==
    IF ~built.ok THEN Stop("error", at, <<>>, built.err)
    ELSE IF tries = 0 THEN StepFrom(at + 1, steps, size, paths, tries)
    ELSE Stop("loop", at, built.prompts, "")

\* create_data, line 180: the loop over the steps, from step `at` on.
StepFrom(at, steps, size, paths, tries) ==
    IF at >= steps THEN Stop("done", at, <<>>, "")
    ELSE StepBuilt(at, PromptsFrom(0, at * size, size, paths,
                                   [ok |-> TRUE, prompts |-> <<>>, err |-> ""]),
                   steps, size, paths, tries)

FileNames == {"interrupted_dataset.jsonl", "error_dataset.jsonl"}

NoFile == [exists |-> FALSE, lines |-> <<>>]

\* Dataset.save(save_path): the file rewritten with one line per sample.
save(save_path, saved) ==
    [files EXCEPT ![save_path] = [exists |-> TRUE, lines |-> SaveLines(saved)]]

\* The calls of the step in progress, and the lengths of the dataset and
\* of failed_samples when it began.
StepBegins(n_samples, n_failed) ==
    [calls |-> 0, raised |-> 0, samples_before |-> n_samples, failed_before |-> n_failed]

NoStep ==
    [some |-> FALSE, step |-> 0, calls |-> 0, raised |-> 0, added |-> 0, failures |-> <<>>,
     last_error |-> ""]

NoCall == [some |-> FALSE, step |-> 0, attempt |-> 0, returned |-> FALSE, kept |-> FALSE]

NoPaths == [some |-> FALSE, q |-> <<>>]

\* A variant of GoTo whose handler raises a new exception around the
\* message of the one it caught.
GoTo_Wrapped(stop, saved) ==
    /\ pc' = stop.kind
    /\ step' = stop.step
    /\ attempt' = 0
    /\ prompts' = stop.prompts
    /\ thrown' = stop.err
    /\ exc' = IF stop.kind = "error" THEN "Unexpected error: " \o stop.err ELSE stop.err
    /\ files' = IF stop.kind = "error" THEN save("error_dataset.jsonl", saved) ELSE files

\* create_data reaches `stop` with the dataset holding `saved`: the retry
\* loop of a step, the return after the last step (line 274-276), or the
\* handler of lines 268-272, which saves the dataset and raises again.
GoTo(stop, saved) ==
    /\ pc' = stop.kind
    /\ step' = stop.step
    /\ attempt' = 0
    /\ prompts' = stop.prompts
    /\ thrown' = stop.err
    /\ exc' = stop.err
    /\ files' = IF stop.kind = "error" THEN save("error_dataset.jsonl", saved) ELSE files

\* create_data raises before its loop: nothing but model_name has changed.
RaiseEarly(kind, msg, name) ==
    /\ pc' = kind
    /\ thrown' = msg
    /\ exc' = msg
    /\ model_name' = name
    /\ UNCHANGED <<max_retries, sys_msg, failed_samples, failure_analysis, samples,
                   ds_failed_samples, files, num_steps, batch_size,
                   include_sys_msg, drawn_paths, step, attempt, prompts, requested, calls,
                   allValid, cur, done, lastCall>>

\* create_data, lines 153-178: past the checks, the paths are drawn and
\* the loop over the steps begins.
StartLoop(num_steps_arg, batch_size_arg, tree_arg, name, include, draw) ==
    /\ model_name' = name
    /\ requested' = num_steps_arg
    /\ batch_size' = batch_size_arg
    /\ include_sys_msg' = include
    /\ drawn_paths' = IF tree_arg.some
                      THEN [some |-> TRUE, q |-> [i \in 1..Len(draw) |-> tree_arg.tree_paths[draw[i]]]]
                      ELSE NoPaths
    /\ num_steps' = IF tree_arg.some
                    THEN (Len(draw) + batch_size_arg - 1) \div batch_size_arg
                    ELSE num_steps_arg.n
    /\ calls' = 0
    /\ allValid' = TRUE
    /\ cur' = StepBegins(Len(samples), Len(failed_samples))
    /\ done' = NoStep
    /\ lastCall' = NoCall
    /\ GoTo(StepFrom(0, num_steps', batch_size_arg, drawn_paths', max_retries), samples)
    /\ UNCHANGED <<max_retries, sys_msg, failed_samples, failure_analysis, samples,
                   ds_failed_samples>>

\* A variant of Checked that also refuses a request for exactly as many
\* samples as the tree has paths.
Checked_AtLeast(num_steps_arg, batch_size_arg, tree_arg, name, include) ==
    IF name = ""
    THEN RaiseEarly("config_error", "No valid model_name provided", name)
    ELSE IF tree_arg.some /\ num_steps_arg.n * batch_size_arg >= Len(tree_arg.tree_paths)
    THEN RaiseEarly("config_error",
                    "Required samples (" \o ToString(num_steps_arg.n * batch_size_arg)
                    \o ") exceeds available tree paths ("
                    \o ToString(Len(tree_arg.tree_paths)) \o ")",
                    name)
    ELSE IF tree_arg.some /\ batch_size_arg = 0
    THEN RaiseEarly("zero_division", "division by zero", name)
    ELSE \E draw \in (IF tree_arg.some
                       THEN Draws(Len(tree_arg.tree_paths), num_steps_arg.n * batch_size_arg)
                       ELSE {<<>>}) :
            StartLoop(num_steps_arg, batch_size_arg, tree_arg, name, include, draw)

\* create_data, lines 143-169, with the model name `name` in effect.
Checked(num_steps_arg, batch_size_arg, tree_arg, name, include) ==
    IF name = ""
    THEN RaiseEarly("config_error", "No valid model_name provided", name)
    ELSE IF tree_arg.some /\ num_steps_arg.n * batch_size_arg > Len(tree_arg.tree_paths)
    THEN RaiseEarly("config_error",
                    "Required samples (" \o ToString(num_steps_arg.n * batch_size_arg)
                    \o ") exceeds available tree paths ("
                    \o ToString(Len(tree_arg.tree_paths)) \o ")",
                    name)
    ELSE IF tree_arg.some /\ batch_size_arg = 0
    THEN RaiseEarly("zero_division", "division by zero", name)
    ELSE \E draw \in (IF tree_arg.some
                       THEN Draws(Len(tree_arg.tree_paths), num_steps_arg.n * batch_size_arg)
                       ELSE {<<>>}) :
            StartLoop(num_steps_arg, batch_size_arg, tree_arg, name, include, draw)

\* DataEngine.create_data(num_steps, batch_size, topic_tree, model_name,
\* sys_msg), up to its first completion call. A caller whose call raised
\* before the loop may call again.
create_data(num_steps_arg, batch_size_arg, tree_arg, model_name_arg, sys_msg_arg) ==
    /\ pc \in {"idle", "config_error", "zero_division"}
    /\ IF ~num_steps_arg.some
       THEN RaiseEarly("config_error", "num_steps must be specified", model_name)
       ELSE Checked(num_steps_arg, batch_size_arg, tree_arg,
                    IF model_name_arg # "" THEN Strip(model_name_arg) ELSE model_name,
                    IF sys_msg_arg # "None" THEN sys_msg_arg = "True" ELSE sys_msg)
    /\ sleeps' = <<>>
    /\ UNCHANGED <<treeVars, analysisVars, utilVars>>

\* What one pass of the retry loop did: the dataset and the failure records
\* after it, the exception it ended with, if any, and whether it reached
\* the break of line 249.
Attempted(new_samples, new_ds_failed, new_failed, new_analysis, error, broke) ==
    [samples |-> new_samples, ds_failed_samples |-> new_ds_failed,
     failed_samples |-> new_failed, failure_analysis |-> new_analysis,
     error |-> error, broke |-> broke]

\* A variant of AttemptAdded without the break of line 249.
AttemptAdded_NoBreak(handled, added) ==
    IF added.error.some
    THEN Attempted(added.samples, added.ds_failed, handled.failed_samples,
                   handled.failure_analysis, added.error, FALSE)
    ELSE Attempted(added.samples, added.ds_failed, handled.failed_samples \o added.failed,
                   FiledAll(handled.failure_analysis, "invalid_schema", added.descs, 1),
                   NoError, FALSE)

\* create_data, lines 234-249: the samples of the batch go to add_samples.
AttemptAdded(handled, added) ==
    IF added.error.some
    THEN Attempted(added.samples, added.ds_failed, handled.failed_samples,
                   handled.failure_analysis, added.error, FALSE)
    ELSE Attempted(added.samples, added.ds_failed, handled.failed_samples \o added.failed,
                   FiledAll(handled.failure_analysis, "invalid_schema", added.descs, 1),
                   NoError, TRUE)

\* A variant of AttemptReturned that leaves the retry loop after every
\* batch whose handling raised nothing, with or without a sample.
AttemptReturned_BreakAlways(handled) ==
    IF handled.error.some \/ handled.samples = <<>>
    THEN Attempted(samples, ds_failed_samples, handled.failed_samples,
                   handled.failure_analysis, handled.error, ~handled.error.some)
    ELSE AttemptAdded(handled, add_samples(samples, ds_failed_samples, handled.samples))

\* create_data, lines 209-249, once the responses are handled.
AttemptReturned(handled) ==
    IF handled.error.some \/ handled.samples = <<>>
    THEN Attempted(samples, ds_failed_samples, handled.failed_samples,
                   handled.failure_analysis, handled.error, FALSE)
    ELSE AttemptAdded(handled, add_samples(samples, ds_failed_samples, handled.samples))

\* create_data, lines 201-249: one completion call and what the try block
\* makes of it.
AttemptOf(outcome) ==
    IF outcome.raised
    THEN Attempted(samples, ds_failed_samples, failed_samples, failure_analysis,
                   Error(outcome.msg), FALSE)
    ELSE AttemptReturned(
            HandleFrom([i \in 1..Len(outcome.replies) |-> outcome.replies[i].text],
                       [i \in 1..Len(outcome.replies) |-> ParsedReply[outcome.replies[i].text]],
                       1,
                       Handled(<<>>, failed_samples, failure_analysis, NoError),
                       include_sys_msg))

\* A variant of Recorded that records the exception of every attempt.
Recorded_EveryAttempt(a, last) ==
    IF a.error.some
    THEN [failed_samples |-> Append(a.failed_samples, JStr(a.error.msg)),
          failure_analysis |-> Filed(a.failure_analysis,
                                     analyze_failure(a.error.msg, a.error), a.error.msg)]
    ELSE [failed_samples |-> a.failed_samples, failure_analysis |-> a.failure_analysis]

\* create_data, lines 251-260: the handler records the exception of the
\* last attempt.
Recorded(a, last) ==
    IF a.error.some /\ last
    THEN [failed_samples |-> Append(a.failed_samples, JStr(a.error.msg)),
          failure_analysis |-> Filed(a.failure_analysis,
                                     analyze_failure(a.error.msg, a.error), a.error.msg)]
    ELSE [failed_samples |-> a.failed_samples, failure_analysis |-> a.failure_analysis]

\* The retry loop after a pass with result a: the next pass, or the end of
\* the step and what follows it.
AfterCall(outcome, a, rec) ==
    /\ samples' = a.samples
    /\ ds_failed_samples' = a.ds_failed_samples
    /\ failed_samples' = rec.failed_samples
    /\ failure_analysis' = rec.failure_analysis
    /\ calls' = calls + 1
    /\ allValid' = (/\ allValid
                    /\ ~outcome.raised
                    /\ \A i \in 1..Len(outcome.replies) : outcome.replies[i].form \in ValidForms)
    /\ lastCall' = [some |-> TRUE, step |-> step, attempt |-> attempt,
                    returned |-> ~outcome.raised,
                    kept |-> /\ ~outcome.raised
                             /\ \E i \in 1..Len(outcome.replies) :
                                    outcome.replies[i].form \in ParsingForms
                             /\ \A i \in 1..Len(outcome.replies) :
                                    outcome.replies[i].form # "no_list"]
    /\ IF a.broke \/ attempt = max_retries - 1
       THEN /\ GoTo(StepFrom(step + 1, num_steps, batch_size, drawn_paths, max_retries),
                    samples')
            /\ done' = [some |-> TRUE, step |-> step, calls |-> cur.calls + 1,
                        raised |-> cur.raised + (IF outcome.raised THEN 1 ELSE 0),
                        added |-> Len(samples') - cur.samples_before,
                        failures |-> SubSeq(failed_samples', cur.failed_before + 1,
                                            Len(failed_samples')),
                        last_error |-> outcome.msg]
            /\ cur' = StepBegins(Len(samples'), Len(failed_samples'))
       ELSE /\ attempt' = attempt + 1
            /\ cur' = [cur EXCEPT !.calls = @ + 1,
                                  !.raised = @ + (IF outcome.raised THEN 1 ELSE 0)]
            /\ UNCHANGED <<pc, step, prompts, thrown, exc, files, done>>

\* One pass of the retry loop of a step: litellm.batch_completion is
\* called with the prompts of the step, and create_data runs on to its
\* next completion call or to its end.
batch_completion(outcome) ==
    /\ pc = "loop"
    /\ AfterCall(outcome, AttemptOf(outcome),
                 Recorded(AttemptOf(outcome), attempt = max_retries - 1))
    /\ UNCHANGED <<model_name, max_retries, sys_msg, num_steps, batch_size,
                   include_sys_msg, drawn_paths, requested, sleeps>>
    /\ UNCHANGED <<treeVars, analysisVars, utilVars>>

\* A variant of KeyboardInterrupt whose handler returns without saving.
KeyboardInterrupt_Unsaved ==
    /\ pc = "loop"
    /\ pc' = "interrupted"
    /\ thrown' = "KeyboardInterrupt"
    /\ UNCHANGED <<model_name, max_retries, sys_msg, failed_samples, failure_analysis,
                   samples, ds_failed_samples, num_steps, batch_size, files,
                   include_sys_msg, drawn_paths, step, attempt, prompts, exc, requested,
                   calls, allValid, cur, done, lastCall, sleeps>>
    /\ UNCHANGED <<treeVars, analysisVars, utilVars>>

\* A KeyboardInterrupt reaches create_data inside its loop: the handler of
\* lines 262-266 saves the dataset and returns it.
KeyboardInterrupt ==
    /\ pc = "loop"
    /\ pc' = "interrupted"
    /\ files' = save("interrupted_dataset.jsonl", samples)
    /\ thrown' = "KeyboardInterrupt"
    /\ UNCHANGED <<model_name, max_retries, sys_msg, failed_samples, failure_analysis,
                   samples, ds_failed_samples, num_steps, batch_size,
                   include_sys_msg, drawn_paths, step, attempt, prompts, exc, requested,
                   calls, allValid, cur, done, lastCall, sleeps>>
    /\ UNCHANGED <<treeVars, analysisVars, utilVars>>

\* ------------------------------------------------------ specifications

\* A TopicTree after its construction.
TreeConstructed ==
    /\ tree_paths = <<>>
    /\ failed_generations = <<>>
    /\ tpc = "idle"
    /\ stack = <<>>
    /\ retries = 0
    /\ last_error = ""
    /\ tcalls = 0
    /\ allGood = TRUE
    /\ claimGood = TRUE
    /\ allFail = TRUE
    /\ expFails = <<>>
    /\ sleeps = <<>>

\* A DataEngine after its construction, no create_data called yet.
EngineConstructed ==
    /\ model_name = "test-model"
    /\ failed_samples = <<>>
    /\ failure_analysis = [failure_type \in FailureTypes |-> <<>>]
    /\ samples = <<>>
    /\ ds_failed_samples = <<>>
    /\ files = [save_path \in FileNames |-> NoFile]
    /\ pc = "idle"
    /\ num_steps = 0
    /\ batch_size = 0
    /\ include_sys_msg = FALSE
    /\ drawn_paths = NoPaths
    /\ step = 0
    /\ attempt = 0
    /\ prompts = <<>>
    /\ thrown = ""
    /\ exc = ""
    /\ requested = None
    /\ calls = 0
    /\ allValid = TRUE
    /\ cur = StepBegins(0, 0)
    /\ done = NoStep
    /\ lastCall = NoCall

\* No call of analyze_failure made on its own.
NothingAnalyzed ==
    /\ analyzed_content = [shape |-> "blank", text |-> ""]
    /\ analyzed_error = [mentions |-> {}, msg |-> "", some |-> FALSE]
    /\ analyzed_type = ""

\* A function that was not called yet.
NotCalled == [kind |-> "idle", val |-> JNone, err |-> ""]

\* A new Dataset on which nothing was called, and no file saved from one.
NoDatasetCall == [op |-> "", arg |-> <<>>]

NothingWritten == [some |-> FALSE, samples |-> <<>>]

\* None of the functions that stand on their own was called.
\* The options of `start` this model varies: the two save paths, the
\* repository of --hf-repo and that of the configuration file, and the
\* token found in --hf-token, HF_TOKEN or the configuration ("" for none).
NoOptions ==
    [topic_tree_save_as |-> "", dataset_save_as |-> "", hf_repo |-> "",
     config_repository |-> "", token |-> ""]

\* The command `start` was not run.
NotStarted ==
    [pc |-> "idle", opts |-> NoOptions, called |-> <<>>, echoed |-> <<>>, exit_code |-> 0,
     raised_in |-> "", raised_msg |-> ""]

NothingElseCalled ==
    /\ cli = NotStarted
    /\ validated = [num_steps |-> 0, batch_size |-> 0]
    /\ validation = NotCalled
    /\ ds_call = NoDatasetCall
    /\ ds_raised = ""
    /\ ds_returned = <<>>
    /\ written = [save_path \in FileNames |-> NothingWritten]
    /\ extract_input = [fn |-> "", text |-> ""]
    /\ extracted = NotCalled
    /\ summary = NotCalled
    /\ loaded = [dict_list |-> <<>>, held |-> 0]

\* The default EngineArguments.
DefaultArguments ==
    /\ max_retries = 3
    /\ sys_msg = TRUE

InitTree ==
    /\ tree_degree \in 0..MaxDegree
    /\ tree_depth \in 0..MaxDepth
    /\ Pow(tree_degree, tree_depth) <= MaxLeaves
    /\ TreeConstructed
    /\ EngineConstructed
    /\ DefaultArguments
    /\ NothingAnalyzed
    /\ NothingElseCalled

NextTree ==
    \/ build_tree
    \/ build_subtree_enter
    \/ \E reply \in TreeReplies : get_subtopics_attempt(reply)
    \/ build_subtree_child
    \/ build_subtree_return

\* TopicTree.build_tree on every tree within the bounds.
SpecTree == InitTree /\ [][NextTree]_vars

Init ==
    /\ max_retries \in 0..MaxRetries
    /\ sys_msg \in BOOLEAN
    /\ EngineConstructed
    /\ tree_degree = 0
    /\ tree_depth = 0
    /\ TreeConstructed
    /\ NothingAnalyzed
    /\ NothingElseCalled

Next ==
    \/ \E num_steps_arg \in {None} \cup {Some(n) : n \in 0..MaxSteps} :
       \E batch_size_arg \in 0..MaxBatch :
       \E tree_arg \in TopicTrees :
       \E model_name_arg \in ModelNameArgs :
       \E sys_msg_arg \in SysMsgArgs :
          create_data(num_steps_arg, batch_size_arg, tree_arg, model_name_arg, sys_msg_arg)
    \/ \E outcome \in CallOutcomes(Len(prompts)) : batch_completion(outcome)
    \/ KeyboardInterrupt

\* DataEngine.create_data on a new engine.
Spec == Init /\ [][Next]_vars

\* The response contents analyze_failure is given, each with the shape it
\* was written to have: blank, holding one of { } [ ], or plain text.
ContentCases ==
    {[shape |-> "blank", text |-> ""],
     [shape |-> "blank", text |-> " \n\t "],
     [shape |-> "brackets", text |-> "{\"messages\": [oops"],
     [shape |-> "brackets", text |-> "see ]"],
     [shape |-> "brackets", text |-> " } "],
     [shape |-> "plain", text |-> "Sorry, no."],
     [shape |-> "plain", text |-> "schema timeout (x)"],
     [shape |-> "plain", text |-> " a "]}

\* The exceptions analyze_failure is given, each with the words its message
\* was written to mention, in whatever case.
ErrorCases ==
    {[some |-> FALSE, msg |-> "", mentions |-> {}],
     [some |-> TRUE, msg |-> "Request timeout after 30s", mentions |-> {"timeout"}],
     [some |-> TRUE, msg |-> "Rate Limit exceeded", mentions |-> {"rate limit"}],
     [some |-> TRUE, msg |-> "CONNECTION refused", mentions |-> {"connection"}],
     [some |-> TRUE, msg |-> "boom", mentions |-> {}],
     [some |-> TRUE, msg |-> "", mentions |-> {}],
     [some |-> TRUE, msg |-> "rate-limit {429}", mentions |-> {}],
     [some |-> TRUE, msg |-> "response does not match the Schema", mentions |-> {"schema"}],
     [some |-> TRUE, msg |-> "schema check: connection timeout",
      mentions |-> {"schema", "connection", "timeout"}]}

\* analyze_failure called on its own.
analyze ==
    /\ analyzed_type = ""
    /\ analyzed_type' = analyze_failure(analyzed_content.text,
                                        [some |-> analyzed_error.some, msg |-> analyzed_error.msg])
    /\ UNCHANGED <<analyzed_content, analyzed_error, treeVars, sleeps, engineVars, utilVars>>

InitAnalyze ==
    /\ analyzed_content \in ContentCases
    /\ analyzed_error \in ErrorCases
    /\ analyzed_type = ""
    /\ tree_degree = 0
    /\ tree_depth = 0
    /\ TreeConstructed
    /\ EngineConstructed
    /\ DefaultArguments
    /\ NothingElseCalled

NextAnalyze == analyze

\* DataEngine.analyze_failure on every content and every exception above.
SpecAnalyze == InitAnalyze /\ [][NextAnalyze]_vars

\* ------------------------------------------------ TopicTree.build_tree

\* tree_paths holds tree_degree ** tree_depth paths, each of tree_depth + 1
\* labels and starting with the root prompt.
FullTree ==
    /\ Len(tree_paths) = Pow(tree_degree, tree_depth)
    /\ \A i \in 1..Len(tree_paths) :
          /\ Len(tree_paths[i]) = tree_depth + 1
          /\ tree_paths[i][1] = root_prompt

\* C1, as the claim states it: when every completion call returned a list
\* of at least tree_degree valid non-empty strings, build_tree leaves a full
\* tree and no failed generation. It fails for tree_degree = 0 and
\* tree_depth >= 1: the empty list is all a call has to return, and
\* get_subtopics takes an empty list for a failure.
C1_AsStated == (tpc = "done" /\ claimGood) => (FullTree /\ failed_generations = <<>>)

\* C1, amended: when every completion call returned a non-empty list with at
\* least tree_degree valid non-empty strings, build_tree leaves exactly
\* tree_degree ** tree_depth paths (one, the root alone, for tree_depth = 0),
\* each of length tree_depth + 1 and starting with the root prompt, and
\* failed_generations stays empty.
C1_FullTreeWhenAllCallsSucceed ==
    (tpc = "done" /\ allGood) => (FullTree /\ failed_generations = <<>>)

\* A tree of degree 2 and depth 2 built from three good calls.
C1_Witness ==
    /\ tpc = "done"
    /\ allGood
    /\ tree_degree = 2
    /\ tree_depth = 2
    /\ tcalls = 3
    /\ Len(tree_paths) = 4

RECURSIVE PlaceholderPaths(_, _, _)
RECURSIVE PlaceholderNodes(_, _, _)
\* The leaves below node_path when every node gets its placeholder labels,
\* left to right.
PlaceholderPaths(node_path, degree, depth) ==
    IF depth = 0 THEN <<node_path>>
    ELSE LET below == [i \in 1..degree |->
                PlaceholderPaths(
                    Append(node_path, "subtopic_" \o ToString(i) \o "_for_"
                                      \o node_path[Len(node_path)]),
                    degree, depth - 1)]
             flat[i \in 0..degree] == IF i = 0 THEN <<>> ELSE flat[i - 1] \o below[i]
         IN  flat[degree]

\* The nodes that are expanded below and including node_path, in the order
\* build_subtree visits them.
PlaceholderNodes(node_path, degree, depth) ==
    IF depth = 0 THEN <<>>
    ELSE LET below == [i \in 1..degree |->
                PlaceholderNodes(
                    Append(node_path, "subtopic_" \o ToString(i) \o "_for_"
                                      \o node_path[Len(node_path)]),
                    degree, depth - 1)]
             flat[i \in 0..degree] == IF i = 0 THEN <<>> ELSE flat[i - 1] \o below[i]
         IN  <<node_path>> \o flat[degree]

\* C2: when every completion call failed (it raised, or its text gave too
\* few subtopics), build_tree still leaves tree_degree ** tree_depth paths of
\* length tree_depth + 1, made of the placeholder labels, and
\* failed_generations holds one record for each expanded node, in the order
\* of the visit, with the node's path, attempts = 3 and the error of the
\* last attempt.
C2_PlaceholderTreeWhenAllCallsFail ==
    (tpc = "done" /\ allFail) =>
        /\ FullTree
        /\ tree_paths = PlaceholderPaths(<<root_prompt>>, tree_degree, tree_depth)
        /\ Len(failed_generations)
              = Len(PlaceholderNodes(<<root_prompt>>, tree_degree, tree_depth))
        /\ \A i \in 1..Len(failed_generations) :
              /\ failed_generations[i].path
                    = PlaceholderNodes(<<root_prompt>>, tree_degree, tree_depth)[i]
              /\ failed_generations[i].attempts = 3
        /\ failed_generations = expFails
        /\ tcalls = 3 * Len(failed_generations)

\* A tree of degree 2 and depth 2 all of whose nine calls failed.
C2_Witness ==
    /\ tpc = "done"
    /\ allFail
    /\ tree_degree = 2
    /\ tree_depth = 2
    /\ tcalls = 9
    /\ Len(failed_generations) = 3
    /\ tree_paths[4] = <<root_prompt, "subtopic_2_for_Root", "subtopic_2_for_subtopic_2_for_Root">>

\* ------------------------------------------------ DataEngine.create_data

\* The paths drawn from the topic tree hold strings only.
StringPaths ==
    \A i \in 1..Len(drawn_paths.q) :
       \A j \in 1..Len(drawn_paths.q[i]) : drawn_paths.q[i][j].t = "str"

\* C3, as the claim states it: on a topic tree with enough paths, and with
\* every completion call returning one valid sample for each prompt,
\* create_data(S, N) returns after exactly S calls with exactly S * N
\* samples. It fails for max_retries = 0, where no call is made at all, and
\* for batch_size = 0, where math.ceil divides by zero.
C3_AsStated ==
    /\ pc # "zero_division"
    /\ (pc \in {"done", "error"} /\ drawn_paths.some /\ StringPaths /\ allValid) =>
          /\ pc = "done"
          /\ calls = requested.n
          /\ Len(samples) = requested.n * batch_size

\* C3, amended: on a topic tree of string paths with at least S * N of them,
\* with batch_size >= 1 and max_retries >= 1 and with every completion call
\* returning one valid sample for each prompt, create_data(S, N) returns
\* after exactly S calls with exactly S * N samples; with max_retries = 0 it
\* returns after no call with no sample, and with batch_size = 0 on a topic
\* tree it raises ZeroDivisionError before any call.
C3_ExactlySCallsAndSNSamples ==
    /\ (pc \in {"done", "error"} /\ drawn_paths.some /\ StringPaths /\ allValid
        /\ max_retries >= 1) =>
          /\ pc = "done"
          /\ batch_size >= 1
          /\ calls = requested.n
          /\ Len(samples) = requested.n * batch_size
          /\ \A i \in 1..Len(samples) : validate_sample(samples[i]) = "valid"
    /\ (pc \in {"done", "error"} /\ drawn_paths.some /\ StringPaths /\ max_retries = 0) =>
          /\ pc = "done"
          /\ calls = 0
          /\ samples = <<>>
    /\ pc = "zero_division" =>
          /\ exc = "division by zero"
          /\ samples = <<>>
          /\ \A save_path \in FileNames : files[save_path] = NoFile

\* Two steps of one prompt each on a topic tree: two calls, two samples.
C3_Witness ==
    /\ pc = "done"
    /\ drawn_paths.some
    /\ allValid
    /\ requested.n = 2
    /\ batch_size = 1
    /\ calls = 2
    /\ Len(samples) = 2

\* C4, as the claim states it: after a completion call that returned, the
\* loop is past the step of that call (the batches taken to hold at least
\* one prompt). It fails when no response of the batch gave a sample, and when the handling of the batch raised: the step
\* is tried again.
C4_AsStated ==
    (pc = "loop" /\ lastCall.some /\ lastCall.returned /\ batch_size >= 1) =>
        step > lastCall.step

\* C4, amended: once a completion call of a step has returned, at least one
\* of its responses has parsed to a non-empty JSON object and the handling
\* of the batch has raised nothing, the step makes no further call and the
\* loop is at a later step, however many of the samples were invalid. After
\* any other call - one that raised, one none of whose responses gave a
\* sample, one whose handling raised - the same step is tried again while
\* attempts remain, and left after its last attempt.
C4_StepEndsOnceABatchGaveASample ==
    /\ (pc = "loop" /\ lastCall.some /\ lastCall.kept) => step > lastCall.step
    /\ (pc = "loop" /\ lastCall.some /\ ~lastCall.kept
        /\ lastCall.attempt < max_retries - 1) =>
          /\ step = lastCall.step
          /\ attempt = lastCall.attempt + 1
    /\ (pc = "loop" /\ lastCall.some /\ lastCall.attempt = max_retries - 1) =>
          step > lastCall.step

\* The first call of step 0 returned a batch with an invalid sample in it,
\* attempts remained, and the loop is at step 1.
C4_Witness ==
    /\ pc = "loop"
    /\ lastCall.some
    /\ lastCall.kept
    /\ lastCall.step = 0
    /\ lastCall.attempt = 0
    /\ max_retries = 2
    /\ step = 1
    /\ ds_failed_samples # <<>>

\* C5: when the completion call raised on every attempt of a step, the step
\* made exactly max_retries calls, nothing slept, the message of the last
\* exception was recorded as the one failure of the step, and only after
\* the last attempt, the step added no sample, and the run went on to the
\* next step (or to its normal end): no exception of the backend leaves
\* create_data.
C5_AllAttemptsRaised ==
    /\ (done.some /\ done.raised = done.calls) =>
          /\ done.calls = max_retries
          /\ done.failures = <<JStr(done.last_error)>>
          /\ done.added = 0
          /\ pc \in {"loop", "done", "interrupted", "error"}
          /\ pc = "loop" => step = done.step + 1
          /\ pc = "done" => done.step + 1 = num_steps
    /\ (pc = "loop" /\ cur.raised = cur.calls) =>
          /\ cur.calls < max_retries
          /\ Len(failed_samples) = cur.failed_before
          /\ Len(samples) = cur.samples_before
    /\ pc = "error" => thrown \notin BackendErrors
    /\ exc \notin BackendErrors
    /\ sleeps = <<>>

\* Both attempts of step 0 raised and the loop is at step 1.
C5_Witness ==
    /\ max_retries = 2
    /\ done.some
    /\ done.step = 0
    /\ done.calls = 2
    /\ done.raised = 2
    /\ pc = "loop"
    /\ step = 1
    /\ failed_samples = <<JStr(done.last_error)>>

\* The message of the over-capacity error.
OverCapacity(required_samples, total_paths) ==
    "Required samples (" \o ToString(required_samples)
    \o ") exceeds available tree paths (" \o ToString(total_paths) \o ")"

\* C6: create_data raises a configuration error - num_steps missing, no
\* non-empty model name in effect, more samples required than the topic tree
\* has paths - before any completion call and with the dataset, the failure
\* records and the files as they were; a call that got past these checks
\* had its num_steps, a non-empty model name and, with a topic tree, as many
\* distinct paths of it as it required.
C6_ConfigurationErrorsRaiseFirst ==
    /\ pc = "config_error" =>
          /\ calls = 0
          /\ samples = <<>>
          /\ ds_failed_samples = <<>>
          /\ failed_samples = <<>>
          /\ \A failure_type \in FailureTypes : failure_analysis[failure_type] = <<>>
          /\ \A save_path \in FileNames : files[save_path] = NoFile
          /\ exc = thrown
          /\ \/ exc = "num_steps must be specified"
             \/ exc = "No valid model_name provided" /\ model_name = ""
             \/ \E total_paths \in 0..MaxTreePaths :
                \E required_samples \in (total_paths + 1)..(MaxSteps * MaxBatch) :
                   exc = OverCapacity(required_samples, total_paths)
    /\ pc \in {"loop", "done", "interrupted", "error"} =>
          /\ requested.some
          /\ model_name # ""
          /\ drawn_paths.some =>
                /\ Len(drawn_paths.q) = requested.n * batch_size
                /\ Len(drawn_paths.q) <= MaxTreePaths
                /\ \A i \in 1..Len(drawn_paths.q) :
                   \A j \in 1..Len(drawn_paths.q) :
                      drawn_paths.q[i] = drawn_paths.q[j] => i = j

\* create_data(2, 2) on a topic tree of two paths.
C6_Witness ==
    /\ pc = "config_error"
    /\ exc = OverCapacity(4, 2)
    /\ calls = 0

\* The number of messages of a stored sample with the role "system".
SystemMessages(sample) ==
    Cardinality({i \in 1..Len(DictGet(sample, "messages").q) :
                    /\ DictGet(sample, "messages").q[i].t = "dict"
                    /\ DictHas(DictGet(sample, "messages").q[i], "role")
                    /\ DictGet(DictGet(sample, "messages").q[i], "role") = JStr("system")})

\* C7, as the claim states it: the system message is inserted only into a
\* sample that has none yet, so that no stored sample has two of them (no
\* response of the backend has more than one). The code inserts it
\* whenever the inclusion is enabled.
C7_AsStated == \A i \in 1..Len(samples) : SystemMessages(samples[i]) <= 1

\* C8: a KeyboardInterrupt inside the loop of create_data has the dataset as
\* it is then saved to interrupted_dataset.jsonl, one line per sample;
\* create_data returns without raising, and makes no call afterwards.
C8_InterruptSavesAndReturns ==
    /\ [](pc = "interrupted" =>
            /\ files["interrupted_dataset.jsonl"]
                  = [exists |-> TRUE, lines |-> SaveLines(samples)]
            /\ Len(files["interrupted_dataset.jsonl"].lines) = Len(samples)
            /\ files["error_dataset.jsonl"] = NoFile
            /\ exc = "")
    /\ [][pc = "interrupted" => (pc' = "interrupted" /\ calls' = calls)]_vars

\* The interrupt came in step 1, with a sample of step 0 in the dataset.
C8_Witness ==
    /\ pc = "interrupted"
    /\ step = 1
    /\ calls >= 1
    /\ Len(samples) >= 1
    /\ Len(files["interrupted_dataset.jsonl"].lines) >= 1

\* C9: an exception that leaves the loop of create_data has the dataset as
\* it is then saved to error_dataset.jsonl, one line per sample, and reaches
\* the caller with the message it was raised with; no call is made
\* afterwards.
C9_ErrorSavesAndRaisesAgain ==
    /\ [](pc = "error" =>
            /\ files["error_dataset.jsonl"] = [exists |-> TRUE, lines |-> SaveLines(samples)]
            /\ Len(files["error_dataset.jsonl"].lines) = Len(samples)
            /\ files["interrupted_dataset.jsonl"] = NoFile
            /\ thrown = "sequence item 1: expected str instance, int found"
            /\ exc = thrown)
    /\ [][pc = "error" => (pc' = "error" /\ calls' = calls)]_vars

\* The prompt of step 1 could not be built, with a sample of step 0 in the
\* dataset.
C9_Witness ==
    /\ pc = "error"
    /\ step = 1
    /\ calls >= 1
    /\ Len(samples) >= 1
    /\ Len(files["error_dataset.jsonl"].lines) >= 1

\* ---------------------------------------------- DataEngine.analyze_failure

\* The failure type of a response content of the given shape.
ContentType(shape) ==
    CASE shape = "blank" -> "empty_responses"
      [] shape = "brackets" -> "json_parsing_errors"
      [] OTHER -> "malformed_responses"

\* C10, as the claim states it: an exception is an api_error when its text
\* mentions timeout, rate limit or connection, and one of the other_errors
\* in every other case. It fails for a text that mentions schema.
C10_AsStated ==
    analyzed_type # "" =>
        analyzed_type =
            IF analyzed_error.some
            THEN (IF analyzed_error.mentions \cap ApiErrorWords # {}
                  THEN "api_errors" ELSE "other_errors")
            ELSE ContentType(analyzed_content.shape)

\* C10, amended: without an exception, analyze_failure gives empty_responses
\* for an empty or all-whitespace content, json_parsing_errors for a
\* content holding one of { } [ ], malformed_responses for any other; with
\* an exception, whatever the content, invalid_schema when its text mentions
\* schema, else api_errors when it mentions timeout, rate limit or
\* connection, else other_errors, the words taken in any case.
C10_FailureTypes ==
    analyzed_type # "" =>
        analyzed_type =
            IF analyzed_error.some
            THEN (IF "schema" \in analyzed_error.mentions THEN "invalid_schema"
                  ELSE IF analyzed_error.mentions \cap ApiErrorWords # {}
                  THEN "api_errors" ELSE "other_errors")
            ELSE ContentType(analyzed_content.shape)

\* An exception whose text mentions a rate limit, in capitals.
C10_Witness ==
    /\ analyzed_type = "api_errors"
    /\ analyzed_error.mentions = {"rate limit"}
    /\ analyzed_content.shape = "brackets"

\* ------------------------------- TopicTreeValidator.validate_configuration

\* validate_configuration is called with num_steps and batch_size in
\* 0..MaxRequest each.
MaxRequest == 5

\* A variant of calculate_paths that multiplies the degree by the depth.
calculate_paths_Product(degree, depth) == degree * depth

\* TopicTreeValidator.calculate_paths
calculate_paths(degree, depth) == Pow(degree, depth)

\* a // b of two integers, b not negative.
FloorDiv(a, b) == IF b = 0 THEN Raise("integer division or modulo by zero") ELSE RetVal(a \div b)

\* A variant of Recommendation that also refuses a request for exactly as
\* many paths as the tree has.
Recommendation_AtLeast(total_requested_paths, total_tree_paths, steps, batch) ==
    IF total_requested_paths >= total_tree_paths THEN
        IF steps.kind = "raise" THEN steps
        ELSE IF batch.kind = "raise" THEN batch
        ELSE RetVal([valid |-> FALSE,
                     suggested_num_steps |-> steps.val,
                     suggested_batch_size |-> batch.val,
                     total_tree_paths |-> total_tree_paths,
                     total_requested_paths |-> total_requested_paths])
    ELSE RetVal([valid |-> TRUE,
                 total_tree_paths |-> total_tree_paths,
                 total_requested_paths |-> total_requested_paths])

\* validate_configuration, lines 80-101; steps and batch are the two
\* quotients of lines 84 and 85, computed only on the invalid branch.
Recommendation(total_requested_paths, total_tree_paths, steps, batch) ==
    IF total_requested_paths > total_tree_paths THEN
        IF steps.kind = "raise" THEN steps
        ELSE IF batch.kind = "raise" THEN batch
        ELSE RetVal([valid |-> FALSE,
                     suggested_num_steps |-> steps.val,
                     suggested_batch_size |-> batch.val,
                     total_tree_paths |-> total_tree_paths,
                     total_requested_paths |-> total_requested_paths])
    ELSE RetVal([valid |-> TRUE,
                 total_tree_paths |-> total_tree_paths,
                 total_requested_paths |-> total_requested_paths])

\* TopicTreeValidator(tree_degree, tree_depth).validate_configuration(
\* num_steps, batch_size)
validate_configuration(num_steps_arg, batch_size_arg) ==
    /\ validation = NotCalled
    /\ validated' = [num_steps |-> num_steps_arg, batch_size |-> batch_size_arg]
    /\ validation' = Recommendation(num_steps_arg * batch_size_arg,
                                    calculate_paths(tree_degree, tree_depth),
                                    FloorDiv(calculate_paths(tree_degree, tree_depth),
                                             batch_size_arg),
                                    FloorDiv(calculate_paths(tree_degree, tree_depth),
                                             num_steps_arg))
    /\ UNCHANGED <<treeVars, sleeps, engineVars, analysisVars>>
    /\ UNCHANGED <<datasetVars, extractVars, summary, loaded, cli>>

InitValidate ==
    /\ tree_degree \in 0..MaxDegree
    /\ tree_depth \in 0..MaxDepth
    /\ TreeConstructed
    /\ EngineConstructed
    /\ DefaultArguments
    /\ NothingAnalyzed
    /\ NothingElseCalled

NextValidate ==
    \E num_steps_arg \in 0..MaxRequest :
    \E batch_size_arg \in 0..MaxRequest :
       validate_configuration(num_steps_arg, batch_size_arg)

\* validate_configuration on every validator and every request within the
\* bounds.
SpecValidate == InitValidate /\ [][NextValidate]_vars

\* C11: validate_configuration(num_steps, batch_size) never fails; it
\* reports tree_degree ** tree_depth as the paths of the tree and
\* num_steps * batch_size as the paths requested; it reports valid exactly
\* when the request is no more than the tree has, and then suggests
\* nothing; when invalid it suggests the floors of capacity / batch_size as
\* num_steps and of capacity / num_steps as batch_size; degree 3, depth 2,
\* 5 steps of 2 is invalid with suggested_num_steps = 4.
C11_ValidatorReport ==
    validation # NotCalled =>
        /\ validation.kind = "value"
        /\ validation.val.total_tree_paths = Pow(tree_degree, tree_depth)
        /\ validation.val.total_requested_paths = validated.num_steps * validated.batch_size
        /\ validation.val.valid
              = (validated.num_steps * validated.batch_size <= Pow(tree_degree, tree_depth))
        /\ validation.val.valid =>
              DOMAIN validation.val = {"valid", "total_tree_paths", "total_requested_paths"}
        /\ ~validation.val.valid =>
              /\ validation.val.suggested_num_steps * validated.batch_size
                    <= Pow(tree_degree, tree_depth)
              /\ (validation.val.suggested_num_steps + 1) * validated.batch_size
                    > Pow(tree_degree, tree_depth)
              /\ validation.val.suggested_batch_size * validated.num_steps
                    <= Pow(tree_degree, tree_depth)
              /\ (validation.val.suggested_batch_size + 1) * validated.num_steps
                    > Pow(tree_degree, tree_depth)
        /\ (tree_degree = 3 /\ tree_depth = 2 /\ validated.num_steps = 5
            /\ validated.batch_size = 2) =>
              /\ ~validation.val.valid
              /\ validation.val.suggested_num_steps = 4
              /\ validation.val.suggested_batch_size = 1

\* Degree 3, depth 2, 5 steps of 2: ten paths requested of nine.
C11_Witness ==
    /\ tree_degree = 3
    /\ tree_depth = 2
    /\ validated = [num_steps |-> 5, batch_size |-> 2]
    /\ validation.kind = "value"
    /\ ~validation.val.valid
    /\ validation.val.suggested_num_steps = 4

\* ---------------------------------------------------------------- Dataset

\* A dataset holds at most MaxDatasetSize samples, accepted and failed
\* ones together, and its operations are given lists of at most as many.
MaxDatasetSize == 2

Message(role, content) ==
    JDict(<<[k |-> "role", val |-> JStr(role)], [k |-> "content", val |-> content]>>)

Sample(messages) == JDict(<<[k |-> "messages", val |-> messages]>>)

\* The samples the operations of a Dataset are given, each with what it was
\* written to be: valid, invalid (validate_sample returns False) or unreadable
\* (its "messages" cannot be iterated).
SampleCases ==
    {[form |-> "valid",
      sample |-> Sample(JList(<<Message("user", JStr("q")), Message("system", JStr("s")),
                                Message("system", JStr(""))>>))],
     [form |-> "valid",
      sample |-> Sample(JList(<<Message("system", JStr("Be kind.")),
                                Message("user", JStr("a  b\n c")),
                                Message("assistant", JStr(" ok\t"))>>))],
     [form |-> "valid", sample |-> Sample(JList(<<>>))],
     [form |-> "valid", sample |-> Sample(JStr(""))],
     [form |-> "invalid",
      sample |-> Sample(JList(<<Message("user", JStr("q")), Message("tool", JStr("x"))>>))],
     [form |-> "invalid", sample |-> Sample(JList(<<Message("user", JNum("5"))>>))],
     [form |-> "unreadable", sample |-> Sample(JNum("5"))]}

\* The lists of samples an operation is given.
SampleLists ==
    UNION {[1..n -> {c.sample : c \in SampleCases}] : n \in 0..MaxDatasetSize}

\* The one file the operations of a Dataset write and read.
DatasetPaths == {"interrupted_dataset.jsonl"}

\* The files found before any save: none, one that another program wrote
\* (a valid sample, a sample with a role of its own, a valid sample with
\* blanks between its tokens), and one with a line that is no JSON.
FoundFiles ==
    {NoFile,
     [exists |-> TRUE,
      lines |-> <<"{\"messages\": [{\"role\": \"user\", \"content\": \"hi\"}]}",
                  "{\"messages\": [{\"role\": \"tool\", \"content\": \"x\"}]}",
                  " {\"messages\" : [ {\"role\": \"system\", \"content\": \"s\"} ] } ">>],
     [exists |-> TRUE,
      lines |-> <<"{\"messages\": [{\"role\": \"user\", \"content\": \"hi\"}]}",
                  "{\"messages\": [">>]}

\* The engine's variables a Dataset does not hold.
engineRest == <<model_name, max_retries, sys_msg, failed_samples, failure_analysis, pc,
                num_steps, batch_size, include_sys_msg, drawn_paths, step, attempt, prompts,
                thrown, exc, requested, calls, allValid, cur, done, lastCall>>

\* What no operation of a Dataset touches.
DatasetFrame ==
    /\ UNCHANGED <<treeVars, sleeps, engineRest, analysisVars>>
    /\ UNCHANGED <<validatorVars, extractVars, summary, loaded, cli>>

\* Dataset.add_samples(new) on the dataset as it is: the samples appended
\* before validate_sample raises stay appended.
ds_add_samples(new) ==
    LET added == add_samples(samples, ds_failed_samples, new)
    IN  /\ Len(samples) + Len(ds_failed_samples) + Len(new) <= MaxDatasetSize
        /\ ds_call' = [op |-> "add_samples", arg |-> new]
        /\ samples' = added.samples
        /\ ds_failed_samples' = added.ds_failed
        /\ ds_raised' = added.error.msg
        /\ ds_returned' = IF added.error.some THEN <<>> ELSE <<added.failed, added.descs>>
        /\ UNCHANGED <<files, written>>
        /\ DatasetFrame

\* The loop of from_list and from_jsonl (lines 70-74, 50-55) is the loop of
\* add_samples on a new instance; the caller gets the instance only if
\* nothing was raised, and keeps the dataset it had otherwise.
Instance(op, arg, built, error) ==
    /\ ds_call' = [op |-> op, arg |-> arg]
    /\ ds_raised' = error
    /\ ds_returned' = <<>>
    /\ samples' = IF error = "" THEN built.samples ELSE samples
    /\ ds_failed_samples' = IF error = "" THEN built.ds_failed ELSE ds_failed_samples
    /\ UNCHANGED <<files, written>>
    /\ DatasetFrame

\* Dataset.from_list(sample_list)
from_list(sample_list) ==
    Instance("from_list", sample_list, add_samples(<<>>, <<>>, sample_list),
             add_samples(<<>>, <<>>, sample_list).error.msg)

\* from_jsonl, lines 50-55, on the lines parsed by json.loads: the error of
\* the first line that does not parse or whose validation raises.
LoadedLines(parsed) ==
    LET bad == {i \in 1..Len(parsed) : ~parsed[i].ok}
        upto == IF bad = {} THEN Len(parsed) ELSE Least(bad) - 1
        built == add_samples(<<>>, <<>>, [i \in 1..upto |-> parsed[i].val])
    IN  [built |-> built,
         error |-> IF built.error.some THEN built.error.msg
                   ELSE IF bad # {} THEN "JSONDecodeError" ELSE ""]

\* Dataset.from_jsonl(file_path)
from_jsonl(file_path) ==
    IF ~files[file_path].exists
    THEN Instance("from_jsonl", file_path, add_samples(<<>>, <<>>, <<>>),
                  "[Errno 2] No such file or directory: '" \o file_path \o "'")
    ELSE LET loaded_lines ==
                LoadedLines([i \in 1..Len(files[file_path].lines) |->
                                json_loads(files[file_path].lines[i] \o "\n")])
         IN  Instance("from_jsonl", file_path, loaded_lines.built, loaded_lines.error)

\* Dataset.save(save_path)
ds_save(save_path) ==
    /\ ds_call' = [op |-> "save", arg |-> save_path]
    /\ files' = save(save_path, samples)
    /\ written' = [written EXCEPT ![save_path] = [some |-> TRUE, samples |-> samples]]
    /\ ds_raised' = ""
    /\ ds_returned' = <<>>
    /\ UNCHANGED <<samples, ds_failed_samples>>
    /\ DatasetFrame

\* filter_by_role, line 184: the messages of a sample with the given role.
FilteredMessages(messages, role) ==
    SelectSeq2(messages, [i \in 1..Len(messages) |-> DictGet(messages[i], "role") = JStr(role)], 1)

\* A variant of FilteredSample that keeps the samples left without a
\* message.
FilteredSample_KeepEmpty(sample, filtered_messages) ==
    <<DictSet(sample, "messages", JList(filtered_messages))>>

\* filter_by_role, lines 185-188: the copy of the sample with the filtered
\* messages under its key "messages", if there are any.
FilteredSample(sample, filtered_messages) ==
    IF filtered_messages = <<>> THEN <<>>
    ELSE <<DictSet(sample, "messages", JList(filtered_messages))>>

RECURSIVE FilteredFrom(_, _, _)
\* filter_by_role, the loop of line 183 from the i-th sample on.
FilteredFrom(all, role, i) ==
    IF i > Len(all) THEN <<>>
    ELSE FilteredSample(all[i],
                        FilteredMessages(Iterate(DictGet(all[i], "messages")).q, role))
         \o FilteredFrom(all, role, i + 1)

\* Dataset.filter_by_role(role)
filter_by_role(role) ==
    /\ ds_call' = [op |-> "filter_by_role", arg |-> role]
    /\ ds_raised' = ""
    /\ ds_returned' = FilteredFrom(samples, role, 1)
    /\ UNCHANGED <<samples, ds_failed_samples, files, written>>
    /\ DatasetFrame

RECURSIVE AllMessages(_, _)
\* The messages of the samples from the i-th on, in the order the loops of
\* get_statistics meet them.
AllMessages(all, i) ==
    IF i > Len(all) THEN <<>>
    ELSE Iterate(DictGet(all[i], "messages")).q \o AllMessages(all, i + 1)

RECURSIVE SumOf(_, _)
\* sum(q[i:])
SumOf(q, i) == IF i > Len(q) THEN 0 ELSE q[i] + SumOf(q, i + 1)

\* a / b of two integers as the exact fraction, b not zero.
Ratio(a, b) == [num |-> a, den |-> b]

\* get_statistics, lines 204-223, on a dataset with samples: messages are
\* all their messages.
Statistics(all, messages) ==
    IF Len(messages) = 0 THEN Raise("division by zero")
    ELSE RetVal(
        [total_samples |-> Len(all),
         avg_messages_per_sample |-> Ratio(Len(messages), Len(all)),
         role_distribution |->
            [role \in Roles |->
                Ratio(Cardinality({i \in 1..Len(messages) :
                                      DictGet(messages[i], "role") = JStr(role)}),
                      Len(messages))],
         avg_content_length |->
            Ratio(SumOf([i \in 1..Len(messages) |-> Len(DictGet(messages[i], "content").s)], 1),
                  Len(messages))])

\* Dataset.get_statistics()
get_statistics ==
    /\ ds_call' = [op |-> "get_statistics", arg |-> <<>>]
    /\ ds_raised' = IF samples # <<>> /\ AllMessages(samples, 1) = <<>>
                    THEN "division by zero" ELSE ""
    /\ ds_returned' = IF samples = <<>> THEN RetVal([error |-> "Dataset is empty"])
                      ELSE Statistics(samples, AllMessages(samples, 1))
    /\ UNCHANGED <<samples, ds_failed_samples, files, written>>
    /\ DatasetFrame

\* The engine outside a call of create_data, but for its failure records.
EngineIdle ==
    /\ model_name = "test-model"
    /\ pc = "idle"
    /\ num_steps = 0
    /\ batch_size = 0
    /\ include_sys_msg = FALSE
    /\ drawn_paths = NoPaths
    /\ step = 0
    /\ attempt = 0
    /\ prompts = <<>>
    /\ thrown = ""
    /\ exc = ""
    /\ requested = None
    /\ calls = 0
    /\ allValid = TRUE
    /\ cur = StepBegins(0, 0)
    /\ done = NoStep
    /\ lastCall = NoCall
    /\ DefaultArguments

\* The engine's other variables, as its construction leaves them.
EngineRestConstructed ==
    /\ failed_samples = <<>>
    /\ failure_analysis = [failure_type \in FailureTypes |-> <<>>]
    /\ EngineIdle

\* The files a Dataset finds: one of FoundFiles under its path.
FilesFound ==
    /\ files \in [FileNames -> FoundFiles]
    /\ \A save_path \in FileNames \ DatasetPaths : files[save_path] = NoFile

InitDataset ==
    /\ FilesFound
    /\ samples = <<>>
    /\ ds_failed_samples = <<>>
    /\ EngineRestConstructed
    /\ tree_degree = 0
    /\ tree_depth = 0
    /\ TreeConstructed
    /\ NothingAnalyzed
    /\ NothingElseCalled

\* from_list and from_jsonl make the Dataset, add_samples extends it, the
\* other two read it.
NextDataset ==
    \/ \E sample_list \in SampleLists : ds_call = NoDatasetCall /\ from_list(sample_list)
    \/ \E file_path \in DatasetPaths : ds_call = NoDatasetCall /\ from_jsonl(file_path)
    \/ \E new \in SampleLists : ds_add_samples(new)
    \/ \E role \in Roles \cup {"tool"} : filter_by_role(role)
    \/ get_statistics

\* The operations of a Dataset, on a new one and on one made from a list
\* or from a file.
SpecDataset == InitDataset /\ [][NextDataset]_vars

\* What a sample of SampleCases was written to be.
FormOf(sample) == (CHOOSE c \in SampleCases : c.sample = sample).form

\* The samples of a list that were written valid, in their order.
ValidOf(list) == SelectSeq2(list, [i \in 1..Len(list) |-> FormOf(list[i]) = "valid"], 1)

\* The other samples of a list, in their order.
OthersOf(list) == SelectSeq2(list, [i \in 1..Len(list) |-> FormOf(list[i]) # "valid"], 1)

\* C12, as the claim states it: add_samples never raises; it appends the
\* valid samples of its list to the dataset in their order, every other
\* sample to the failed samples, and returns those others with one
\* description for each. It fails on a sample whose "messages" cannot be
\* iterated: validate_sample raises a TypeError that add_samples lets
\* through, with the samples before it appended and the ones after it lost.
C12_AsStated ==
    [][ds_call'.op = "add_samples" =>
          /\ ds_raised' = ""
          /\ samples' = samples \o ValidOf(ds_call'.arg)
          /\ ds_failed_samples' = ds_failed_samples \o OthersOf(ds_call'.arg)
          /\ Len(ds_returned') = 2
          /\ ds_returned'[1] = OthersOf(ds_call'.arg)
          /\ Len(ds_returned'[2]) = Len(ds_returned'[1])]_vars

\* ---------------------------------------- the members of Dataset.samples

\* A message with a role of the three and a string content.
WellFormedMessage(message) ==
    /\ message.t = "dict"
    /\ DictHas(message, "role")
    /\ DictGet(message, "role").t = "str"
    /\ DictGet(message, "role").s \in {"user", "assistant", "system"}
    /\ DictHas(message, "content")
    /\ DictGet(message, "content").t = "str"

\* The samples that are valid and were made or added by the last call, for
\* the first n samples of its list.
Accepted(n) == ValidOf(SubSeq(ds_call'.arg, 1, n))

MessagesWithRole(role) ==
    SumOf([i \in 1..Len(samples) |->
              Cardinality({j \in 1..Len(DictGet(samples[i], "messages").q) :
                              DictGet(DictGet(samples[i], "messages").q[j], "role") = JStr(role)})], 1)

\* The number of messages of the samples.
TotalMessages == SumOf([i \in 1..Len(samples) |-> Len(DictGet(samples[i], "messages").q)], 1)

\* C15, as the claim states it: get_statistics returns the empty marker
\* exactly when the dataset has no sample, and for every dataset with a
\* sample it returns, without failing, the number of samples, the messages
\* per sample and a share for each role, the shares adding up to 1; one
\* sample of three messages, one of them a system message, gives 3 messages
\* per sample and a system share of 1/3. It fails for a dataset whose
\* samples hold no message at all: the shares are divided by zero.
C15_AsStated ==
    ds_call.op = "get_statistics" =>
       /\ ds_raised = ""
       /\ ds_returned.kind = "value"
       /\ (samples = <<>>) <=> (ds_returned.val = [error |-> "Dataset is empty"])
       /\ samples # <<>> =>
             /\ ds_returned.val.total_samples = Len(samples)
             /\ ds_returned.val.avg_messages_per_sample.num = TotalMessages
             /\ ds_returned.val.avg_messages_per_sample.den = Len(samples)
             /\ DOMAIN ds_returned.val.role_distribution = {"user", "assistant", "system"}
             /\ \A role \in {"user", "assistant", "system"} :
                   /\ ds_returned.val.role_distribution[role].den = TotalMessages
                   /\ ds_returned.val.role_distribution[role].num = MessagesWithRole(role)
             /\ MessagesWithRole("user") + MessagesWithRole("assistant")
                   + MessagesWithRole("system") = TotalMessages
             /\ (Len(samples) = 1 /\ TotalMessages = 3 /\ MessagesWithRole("system") = 1) =>
                   /\ ds_returned.val.avg_messages_per_sample = Ratio(3, 1)
                   /\ ds_returned.val.role_distribution["system"] = Ratio(1, 3)

\* ------------------------------------------------- filter_by_role, stated

\* The positions of the samples holding a message of the role.
WithRole(role) ==
    {i \in 1..Len(samples) :
        \E j \in 1..Len(DictGet(samples[i], "messages").q) :
           DictGet(DictGet(samples[i], "messages").q[j], "role") = JStr(role)}

\* The position of the k-th sample holding a message of the role.
KthWithRole(role, k) ==
    CHOOSE i \in WithRole(role) : Cardinality({h \in WithRole(role) : h <= i}) = k

\* The positions, in a sample's messages, of those of the role.
RoleAt(sample, role) ==
    {j \in 1..Len(DictGet(sample, "messages").q) :
        DictGet(DictGet(sample, "messages").q[j], "role") = JStr(role)}

\* copy is sample with its messages cut down to those of the role, in
\* their order, and every other entry as it was.
IsFilteredCopy(copy, sample, role) ==
    /\ copy.t = "dict"
    /\ Len(copy.q) = Len(sample.q)
    /\ \A e \in 1..Len(sample.q) :
          /\ copy.q[e].k = sample.q[e].k
          /\ sample.q[e].k # "messages" => copy.q[e].val = sample.q[e].val
    /\ DictGet(copy, "messages").t = "list"
    /\ Len(DictGet(copy, "messages").q) = Cardinality(RoleAt(sample, role))
    /\ \A m \in 1..Len(DictGet(copy, "messages").q) :
          \E j \in RoleAt(sample, role) :
             /\ Cardinality({h \in RoleAt(sample, role) : h <= j}) = m
             /\ DictGet(copy, "messages").q[m] = DictGet(sample, "messages").q[j]

\* C16: filter_by_role(role) returns, in the order of the dataset, one copy
\* for each sample that has a message of the role, holding exactly that
\* sample's messages of the role in their order; a sample without such a
\* message is left out; the dataset's samples and failed samples are as
\* they were.
C16_FilterByRole ==
    /\ [](ds_call.op = "filter_by_role" =>
             /\ Len(ds_returned) = Cardinality(WithRole(ds_call.arg))
             /\ \A k \in 1..Len(ds_returned) :
                   IsFilteredCopy(ds_returned[k],
                                  samples[KthWithRole(ds_call.arg, k)], ds_call.arg))
    /\ [][ds_call'.op = "filter_by_role" =>
             /\ samples' = samples
             /\ ds_failed_samples' = ds_failed_samples]_vars

\* A dataset of two samples, the first with a system message and two others,
\* the second without a message: the filter returns one copy, with the
\* system message alone.
C16_Witness ==
    /\ ds_call.op = "filter_by_role"
    /\ ds_call.arg = "system"
    /\ Len(samples) = 2
    /\ Len(DictGet(samples[1], "messages").q) = 3
    /\ WithRole("system") = {1}
    /\ Len(ds_returned) = 1
    /\ Len(DictGet(ds_returned[1], "messages").q) = 1

\* --------------------------------------------- save and from_jsonl again

\* Valid samples whose contents hold whitespace of every kind: single
\* blanks, a run of blanks, a line break, a tab, blanks at the ends.
RoundTripSamples ==
    {Sample(JList(<<Message("user", JStr("a b"))>>)),
     Sample(JList(<<Message("user", JStr("a  b"))>>)),
     Sample(JList(<<Message("user", JStr("a\n b")), Message("assistant", JStr(""))>>)),
     Sample(JList(<<Message("system", JStr(" be kind ")), Message("assistant", JStr("ok\t"))>>)),
     Sample(JList(<<>>))}

RoundTripLists ==
    UNION {[1..n -> RoundTripSamples] : n \in 0..MaxDatasetSize}

\* Everything is constructed, the dataset is empty, there is no file and
\* nothing was called.
InitIdle ==
    /\ files = [save_path \in FileNames |-> NoFile]
    /\ samples = <<>>
    /\ ds_failed_samples = <<>>
    /\ EngineRestConstructed
    /\ tree_degree = 0
    /\ tree_depth = 0
    /\ TreeConstructed
    /\ NothingAnalyzed
    /\ NothingElseCalled

NextRoundTrip ==
    \/ \E new \in RoundTripLists : ds_add_samples(new)
    \/ \E save_path \in DatasetPaths : ds_save(save_path)
    \/ \E file_path \in DatasetPaths : from_jsonl(file_path)

\* A dataset is filled by add_samples, saved, and read again from the file.
SpecRoundTrip == InitIdle /\ [][NextRoundTrip]_vars

\* C14, as the claim states it: from_jsonl of a file written by save gives
\* the samples that were saved, as many and equal one by one in their
\* order, whatever whitespace their contents hold. It fails for a content
\* with a run of blanks: save collapses every run of whitespace of the
\* line it writes, inside the strings too, and the content read again has
\* one blank where it had two.
C14_AsStated ==
    \A file_path \in FileNames :
       (ds_call.op = "from_jsonl" /\ ds_call.arg = file_path /\ written[file_path].some) =>
          /\ ds_raised = ""
          /\ Len(samples) = Len(written[file_path].samples)
          /\ samples = written[file_path].samples

\* ------------------------------------------- promptsmith/topic_tree.py

\* s.strip(chars)
StripChars(s, chars) ==
    IF \A i \in 1..Len(s) : Ch(s, i) \in chars THEN ""
    ELSE Sub(s, Least({i \in 1..Len(s) : Ch(s, i) \notin chars}),
                Greatest({i \in 1..Len(s) : Ch(s, i) \notin chars}))

\* The positions of the commas of s, with 0 and Len(s) + 1 around them.
Commas(s) == {0, Len(s) + 1} \cup {i \in 1..Len(s) : Ch(s, i) = ","}

\* The k-th smallest of a set of positions.
KthOf(positions, k) == CHOOSE p \in positions : Cardinality({h \in positions : h <= p}) = k

\* _extract_list_from_response, line 54: the parts of response between its
\* commas, each without the whitespace and then the quotes at its ends.
CommaItems(response) ==
    [k \in 1..(Cardinality(Commas(response)) - 1) |->
        JStr(StripChars(Strip(Sub(response, KthOf(Commas(response), k) + 1,
                                  KthOf(Commas(response), k + 1) - 1)),
                        {DQ, SQ}))]

\* _extract_list_from_response, lines 51-60: the comma-separated items of a
\* text without bracket or brace, else the ValueError.
SplitOrRaise(response) ==
    IF Contains(response, ",") /\ ~Contains(response, "[") /\ ~Contains(response, "{")
    THEN RetVal(JList(CommaItems(response)))
    ELSE Raise("Could not extract list from response: " \o response)

\* _extract_list_from_response, lines 41-49, given what ast.literal_eval
\* makes of the text from the first "[" to the last "]": its value, the
\* next method after a SyntaxError or a ValueError, any other exception
\* not caught.
LiteralOrNext(response, r) ==
    IF r.ok THEN RetVal(r.val)
    ELSE IF r.err \in {"syntax", "ValueError"} THEN SplitOrRaise(response)
    ELSE Raise(r.err)

\* _extract_list_from_response, lines 41-60.
FromBrackets(response, start, end) ==
    IF start # 0 /\ end # 0 THEN LiteralOrNext(response, literal_eval(Sub(response, start, end)))
    ELSE SplitOrRaise(response)

\* The positions of the entries of a mapping that are lists.
ListValued(data) == {i \in 1..Len(data.q) : data.q[i].val.t = "list"}

\* _extract_list_from_response, lines 28-38, given what json.loads made of
\* the text: a list is returned, a mapping gives its first entry that is a
\* list, and data.values() of any other value is an AttributeError that
\* nothing catches.
FromJson(response, data) ==
    IF ~data.ok THEN FromBrackets(response, Find(response, "["), RFind(response, "]"))
    ELSE IF data.val.t = "list" THEN RetVal(data.val)
    ELSE IF data.val.t # "dict"
    THEN Raise("'" \o TypeName(data.val) \o "' object has no attribute 'values'")
    ELSE IF ListValued(data.val) # {} THEN RetVal(data.val.q[Least(ListValued(data.val))].val)
    ELSE FromBrackets(response, Find(response, "["), RFind(response, "]"))

\* LocalTopicTree._extract_list_from_response(response): its outcome.
_extract_list_from_response(response) == FromJson(response, json_loads(response))

\* ------------------------------------------------- the list extractors

\* What may stand before the body of a reply, the bodies, and what may
\* stand after.
ReplyPrefixes == {"", "here: ", "x, y\n"}

ReplyBodies ==
    {"[\"a\", \"b\"]", "[]", "[[1], [\"b\"]]",
     "{\"topics\": [\"a\", \"b\"]}", "{\"n\": 1, \"l\": [], \"m\": [\"x\"]}", "{\"n\": 1}",
     "5", "\"text\"", "null",
     "['x', 'y']", "[{1: 'a'}]", "[{[1]: 2}]", "[a, b]",
     "[1, 2", "a, 'b' ,\"c\"", "no list"}

ReplySuffixes == {"", " done", "]"}

ExtractInputs ==
    {prefix \o body \o suffix :
        prefix \in ReplyPrefixes, body \in ReplyBodies, suffix \in ReplySuffixes}

ExtractFrame ==
    UNCHANGED <<treeVars, sleeps, engineVars, analysisVars, validatorVars, datasetVars,
                summary, loaded, cli>>

\* A call of utils.extract_list.
call_extract_list(input_string) ==
    /\ extract_input' = [fn |-> "extract_list", text |-> input_string]
    /\ extracted' = extract_list(input_string)
    /\ ExtractFrame

\* A call of LocalTopicTree._extract_list_from_response.
call_extract_list_from_response(response) ==
    /\ extract_input' = [fn |-> "_extract_list_from_response", text |-> response]
    /\ extracted' = _extract_list_from_response(response)
    /\ ExtractFrame

NextExtract ==
    \/ \E input_string \in ExtractInputs : call_extract_list(input_string)
    \/ \E response \in ExtractInputs : call_extract_list_from_response(response)

\* The two list extractors called on texts of every kind.
SpecExtract == InitIdle /\ [][NextExtract]_vars

\* C17, as the claim states it: on a text that is a valid JSON value the
\* extractor returns the list itself when the value is a list and the
\* first entry that is a list when the value is a mapping; what it returns
\* is always a sequence, never the mapping or a scalar. It fails for
\* utils.extract_list, which returns whatever json.loads gives.
C17_AsStated ==
    (extract_input.fn = "extract_list" /\ json_loads(extract_input.text).ok) =>
       /\ extracted.kind = "value"
       /\ extracted.val.t = "list"
       /\ json_loads(extract_input.text).val.t = "list" =>
             extracted.val = json_loads(extract_input.text).val
       /\ (/\ json_loads(extract_input.text).val.t = "dict"
           /\ ListValued(json_loads(extract_input.text).val) # {}) =>
             extracted.val = json_loads(extract_input.text).val.q[
                                Least(ListValued(json_loads(extract_input.text).val))].val

\* C18, as the claim states it: no exception leaves the list extractor;
\* whenever the text is no JSON and has no bracket, no matching bracket or
\* no literal between its brackets, it returns the empty list. It fails
\* for a bracketed literal with a list as the key of a mapping:
\* ast.literal_eval raises a TypeError and safe_literal_eval catches only
\* SyntaxError and ValueError.
C18_AsStated ==
    extract_input.fn = "extract_list" =>
       /\ extracted.kind = "value"
       /\ (/\ ~json_loads(extract_input.text).ok
           /\ \/ Find(extract_input.text, "[") = 0
              \/ MatchingBracket(extract_input.text, Find(extract_input.text, "["), 0) = 0
              \/ ~literal_eval(Sub(extract_input.text, Find(extract_input.text, "["),
                                   MatchingBracket(extract_input.text,
                                                   Find(extract_input.text, "["), 0))).ok) =>
             extracted.val = JList(<<>>)

\* ------------------------------------------------- summarize_failures

\* The number of failures of a run is at most MaxFailures.
MaxFailures == 4

\* A text of n characters.
Xs(n) == Concat([i \in 1..n |-> "x"], 1, n)

\* The failures of a run of create_data: a response that did not parse
\* (its content) or the exception of a last attempt (its message). The
\* texts are of 0, 6, 200, 201 and 260 characters.
FailureCases ==
    {[content |-> "", error |-> NoError],
     [content |-> "{\"a\": ", error |-> NoError],
     [content |-> Xs(200), error |-> NoError],
     [content |-> Xs(201), error |-> NoError],
     [content |-> "", error |-> Error("Request timeout")],
     [content |-> "", error |-> Error("schema " \o Xs(253))]}

FailureRuns == UNION {[1..n -> FailureCases] : n \in 0..MaxFailures}

\* create_data, lines 226-232 and 256-258: a failure is appended to
\* failed_samples and filed under its type.
RecordedFailure(acc, failure) ==
    IF failure.error.some
    THEN [failed_samples |-> Append(acc.failed_samples, JStr(failure.error.msg)),
          failure_analysis |-> Filed(acc.failure_analysis,
                                     analyze_failure(failure.error.msg, failure.error),
                                     failure.error.msg)]
    ELSE [failed_samples |-> Append(acc.failed_samples, JStr(failure.content)),
          failure_analysis |-> Filed(acc.failure_analysis,
                                     analyze_failure(failure.content, NoError),
                                     failure.content)]

RECURSIVE RecordedFailures(_, _)
\* The failure records after the first n failures of a run.
RecordedFailures(failures, n) ==
    IF n = 0 THEN [failed_samples |-> <<>>,
                   failure_analysis |-> [failure_type \in FailureTypes |-> <<>>]]
    ELSE RecordedFailure(RecordedFailures(failures, n - 1), failures[n])

\* A variant of FirstExamples that takes every failure of the category.
FirstExamples_All(failures) == failures

\* summarize_failures, line 123: failures[:3]
FirstExamples(failures) == SubSeq(failures, 1, IF Len(failures) < 3 THEN Len(failures) ELSE 3)

\* summarize_failures, lines 125-129: str(ex) of a text is the text.
Example(ex) == IF Len(ex) > 200 THEN Sub(ex, 1, 200) \o "..." ELSE ex

\* summarize_failures, lines 113-132.
Summary(failed, analysis) ==
    [total_failures |-> Len(failed),
     failure_types |-> [k \in DOMAIN analysis |-> Len(analysis[k])],
     failure_examples |->
        [category \in {k \in DOMAIN analysis : analysis[k] # <<>>} |->
            [i \in 1..Len(FirstExamples(analysis[category])) |->
                Example(FirstExamples(analysis[category])[i])]]]

SummaryFrame ==
    UNCHANGED <<treeVars, sleeps, engineVars, analysisVars, validatorVars, datasetVars,
                extractVars, loaded, cli>>

\* DataEngine.summarize_failures()
summarize_failures ==
    /\ summary' = RetVal(Summary(failed_samples, failure_analysis))
    /\ SummaryFrame

\* DataEngine.print_failure_summary(): the summary is made and printed.
print_failure_summary == summarize_failures

\* The engine after a run of create_data that recorded the failures of
\* FailureRuns.
InitSummary ==
    /\ \E failures \in FailureRuns :
          /\ failed_samples = RecordedFailures(failures, Len(failures)).failed_samples
          /\ failure_analysis = RecordedFailures(failures, Len(failures)).failure_analysis
    /\ EngineIdle
    /\ files = [save_path \in FileNames |-> NoFile]
    /\ samples = <<>>
    /\ ds_failed_samples = <<>>
    /\ tree_degree = 0
    /\ tree_depth = 0
    /\ TreeConstructed
    /\ NothingAnalyzed
    /\ NothingElseCalled

NextSummary ==
    \/ summarize_failures
    \/ print_failure_summary

SpecSummary == InitSummary /\ [][NextSummary]_vars

\* C19, as the claim states it: every example of the summary is at most
\* 200 characters long. It fails for a failure text of more than 200
\* characters: its example is the first 200 characters and three dots.
C19_AsStated ==
    summary.kind = "value" =>
       \A category \in DOMAIN summary.val.failure_examples :
          \A i \in 1..Len(summary.val.failure_examples[category]) :
             Len(summary.val.failure_examples[category][i]) <= 200

\* C19, amended: summarize_failures reports the number of failed samples,
\* the number of failures of each of the six categories, and for each
\* category that is not empty its first three failures at most, each as it
\* is when it has at most 200 characters and else as its first 200
\* characters followed by "...", 203 characters; making or printing the
\* summary changes neither the failure records nor the dataset.
C19_FailureSummary ==
    /\ [](summary.kind = "value" =>
             /\ summary.val.total_failures = Len(failed_samples)
             /\ DOMAIN summary.val.failure_types = FailureTypes
             /\ Cardinality(FailureTypes) = 6
             /\ \A k \in FailureTypes :
                   /\ summary.val.failure_types[k] = Len(failure_analysis[k])
                   /\ k \in DOMAIN summary.val.failure_examples <=> failure_analysis[k] # <<>>
             /\ \A k \in DOMAIN summary.val.failure_examples :
                   /\ Len(summary.val.failure_examples[k]) <= 3
                   /\ Len(summary.val.failure_examples[k]) <= Len(failure_analysis[k])
                   /\ Len(failure_analysis[k]) >= 3 => Len(summary.val.failure_examples[k]) = 3
                   /\ \A i \in 1..Len(summary.val.failure_examples[k]) :
                         /\ Len(summary.val.failure_examples[k][i]) <= 203
                         /\ Len(failure_analysis[k][i]) <= 200 =>
                               summary.val.failure_examples[k][i] = failure_analysis[k][i]
                         /\ Len(failure_analysis[k][i]) > 200 =>
                               /\ Len(summary.val.failure_examples[k][i]) = 203
                               /\ SubSeq(summary.val.failure_examples[k][i], 1, 200)
                                     = SubSeq(failure_analysis[k][i], 1, 200)
                               /\ SubSeq(summary.val.failure_examples[k][i], 201, 203) = "...")
    /\ [][summary'.kind = "value" =>
             /\ failed_samples' = failed_samples
             /\ failure_analysis' = failure_analysis
             /\ samples' = samples
             /\ ds_failed_samples' = ds_failed_samples]_vars

\* Four failures of one category, texts of 200 and of 201 characters among
\* the first three: three examples, of 200 and of 203 characters.
C19_Witness ==
    /\ summary.kind = "value"
    /\ Len(failure_analysis["malformed_responses"]) = 4
    /\ Len(summary.val.failure_examples["malformed_responses"]) = 3
    /\ Len(summary.val.failure_examples["malformed_responses"][1]) = 200
    /\ Len(summary.val.failure_examples["malformed_responses"][2]) = 203
    /\ summary.val.total_failures = 4

\* ------------------------------------------------------ from_dict_list

\* A dict_list has at most MaxRecords records.
MaxRecords == 3

NoGeneration == [path |-> <<>>, attempts |-> 0, last_error |-> ""]

\* A record of a dict_list: a mapping with or without the key "path" and
\* with or without the key "failed_generation".
DictRecord(has_path, path, has_failed, failed_generation) ==
    [has_path |-> has_path, path |-> path,
     has_failed |-> has_failed, failed_generation |-> failed_generation]

DictRecords ==
    {DictRecord(TRUE, <<"root", "a">>, FALSE, NoGeneration),
     DictRecord(TRUE, <<"root", "b">>, FALSE, NoGeneration),
     DictRecord(TRUE, <<"root">>, TRUE,
                [path |-> <<"root">>, attempts |-> 3, last_error |-> "timeout"]),
     DictRecord(FALSE, <<>>, TRUE,
                [path |-> <<"root", "c">>, attempts |-> 3, last_error |-> "bad reply"]),
     DictRecord(FALSE, <<>>, FALSE, NoGeneration)}

DictLists == UNION {[1..n -> DictRecords] : n \in 0..MaxRecords}

\* A variant of Emptied that keeps what the list held.
Emptied_Kept(held) == held

\* from_dict_list, lines 310-311: the list is made empty.
Emptied(held) == <<>>

RECURSIVE LoadedPaths(_, _, _)
\* from_dict_list, lines 313-315: the paths appended from the i-th record
\* on.
LoadedPaths(dict_list, i, paths) ==
    IF i > Len(dict_list) THEN paths
    ELSE LoadedPaths(dict_list, i + 1,
                     IF dict_list[i].has_path THEN Append(paths, dict_list[i].path)
                     ELSE paths)

RECURSIVE LoadedFailures(_, _, _)
\* from_dict_list, lines 313-317: the failed generations appended from the
\* i-th record on.
LoadedFailures(dict_list, i, failures) ==
    IF i > Len(dict_list) THEN failures
    ELSE LoadedFailures(dict_list, i + 1,
                        IF dict_list[i].has_failed
                        THEN Append(failures, dict_list[i].failed_generation)
                        ELSE failures)

\* TopicTree.from_dict_list(dict_list)
from_dict_list(dict_list) ==
    /\ tpc = "idle"
    /\ tree_paths' = LoadedPaths(dict_list, 1, Emptied(tree_paths))
    /\ failed_generations' = LoadedFailures(dict_list, 1, Emptied(failed_generations))
    /\ loaded' = [dict_list |-> dict_list,
                  held |-> Len(tree_paths) + Len(failed_generations)]
    /\ UNCHANGED <<tree_degree, tree_depth, tpc, stack, retries, last_error, tcalls,
                   allGood, claimGood, allFail, expFails, sleeps>>
    /\ UNCHANGED <<engineVars, analysisVars, validatorVars, datasetVars, extractVars,
                   summary, cli>>

NextLoad == \E dict_list \in DictLists : from_dict_list(dict_list)

\* A tree that is loaded from lists of records, again and again.
SpecLoad == InitIdle /\ [][NextLoad]_vars

\* Whether a record has a path, a failed generation.
HasPath(d) == d.has_path

HasFailed(d) == d.has_failed

\* C20: after from_dict_list the tree's paths are the 'path' values of the
\* records that have one, in the order of the list, and its failed
\* generations their 'failed_generation' values in that order, whatever
\* the tree held before; the call makes no completion call.
C20_FromDictList ==
    /\ [](/\ Len(tree_paths) = Len(SelectSeq(loaded.dict_list, HasPath))
          /\ \A i \in 1..Len(tree_paths) :
                tree_paths[i] = SelectSeq(loaded.dict_list, HasPath)[i].path
          /\ Len(failed_generations) = Len(SelectSeq(loaded.dict_list, HasFailed))
          /\ \A i \in 1..Len(failed_generations) :
                failed_generations[i]
                   = SelectSeq(loaded.dict_list, HasFailed)[i].failed_generation
          /\ tcalls = 0)
    /\ [][tcalls' = tcalls]_vars

\* A tree that held three paths and a failure is loaded from three records,
\* the second without a path: it holds two paths and one failure.
C20_Witness ==
    /\ loaded.held = 4
    /\ Len(loaded.dict_list) = 3
    /\ ~loaded.dict_list[2].has_path
    /\ Len(tree_paths) = 2
    /\ Len(failed_generations) = 1

\* ------------------------------------------- extract_list, the brackets

\* The number of "[" less the number of "]" among the characters a..j of s.
Depth(s, a, j) ==
    Cardinality({p \in a..j : Ch(s, p) = "["}) - Cardinality({p \in a..j : Ch(s, p) = "]"})

\* The positions at or after a at which every "[" from a on is closed.
Closings(s, a) == {j \in a..Len(s) : Depth(s, a, j) = 0}

\* The text of s from its first "[" to the "]" that closes it.
Bracketed(s) == Sub(s, Find(s, "["), Least(Closings(s, Find(s, "["))))

\* C25: on a text that is no JSON, extract_list returns the empty list when
\* the text has no "[" or when its first "[" is never closed; else it
\* evaluates the text from the first "[" to the first "]" at which as many
\* brackets were closed as opened, and nothing else: it returns that list,
\* or the empty list when the text between is no literal.
\* extract_list("here: ['x', 'y'] done") is ['x', 'y'].
C25_BracketedSubstring ==
    (extract_input.fn = "extract_list" /\ ~json_loads(extract_input.text).ok) =>
       /\ ~Contains(extract_input.text, "[") =>
             extracted = RetVal(JList(<<>>))
       /\ (/\ Contains(extract_input.text, "[")
           /\ Closings(extract_input.text, Find(extract_input.text, "[")) = {}) =>
             extracted = RetVal(JList(<<>>))
       /\ (/\ Contains(extract_input.text, "[")
           /\ Closings(extract_input.text, Find(extract_input.text, "[")) # {}) =>
             /\ literal_eval(Bracketed(extract_input.text)).ok =>
                   extracted = RetVal(literal_eval(Bracketed(extract_input.text)).val)
             /\ literal_eval(Bracketed(extract_input.text)).err \in {"syntax", "ValueError"} =>
                   extracted = RetVal(JList(<<>>))
       /\ extract_input.text = "here: ['x', 'y'] done" =>
             extracted = RetVal(JList(<<JStr("x"), JStr("y")>>))

\* A nested list in prose with one more "]" after it: the list is
\* recovered, its end being neither the first nor the last "]".
C25_Witness ==
    /\ extract_input.fn = "extract_list"
    /\ extract_input.text = "here: [[1], [\"b\"]]]"
    /\ extracted.kind = "value"
    /\ Len(extracted.val.q) = 2
    /\ extracted.val.q[2] = JList(<<JStr("b")>>)

\* ------------------------------------------ validate_and_clean_response

\* A call of validate_and_clean_response.
call_validate_and_clean_response(response_text) ==
    /\ extract_input' = [fn |-> "validate_and_clean_response", text |-> response_text]
    /\ extracted' = validate_and_clean_response(response_text)
    /\ ExtractFrame

NextClean == \E response_text \in ExtractInputs : call_validate_and_clean_response(response_text)

\* validate_and_clean_response called on texts of every kind.
SpecClean == InitIdle /\ [][NextClean]_vars

\* The strict parse of a response: json.loads of what the regex finds, from
\* the first "[" to the last "]", without the code fences.
StrictParse(response_text) ==
    json_loads(StripFences(GreedySpan(response_text, "[", "]")))

\* C26, as the claim states it: validate_and_clean_response returns the
\* list of the strict parse when there is one, and whenever the strict
\* parse gives no list it returns what extract_list makes of the response,
\* its items stripped; so the response ['x', 'y'] gives the topics x and y.
\* It fails because the code delegates only when the regex finds no
\* bracket pair at all: a bracket pair whose text is no JSON gives None.
C26_AsStated ==
    extract_input.fn = "validate_and_clean_response" =>
       /\ (/\ GreedySpan(extract_input.text, "[", "]") # ""
           /\ StrictParse(extract_input.text).ok
           /\ StrictParse(extract_input.text).val.t = "list") =>
             extracted = RetVal(StrictParse(extract_input.text).val)
       /\ (\/ GreedySpan(extract_input.text, "[", "]") = ""
           \/ ~StrictParse(extract_input.text).ok) =>
             extracted = Fallback(extract_list(extract_input.text))
       /\ extract_input.text = "['x', 'y']" =>
             extracted = RetVal(JList(<<JStr("x"), JStr("y")>>))

\* ------------------------------------------------------------- C22

\* One pass of the retry loop of get_subtopics is taken by this step.
IsAttempt == tpc = "building" /\ tcalls' = tcalls + 1

\* The step returns from get_subtopics: the node's frame gets its subnodes.
GetSubtopicsReturns == IsAttempt /\ stack'[Len(stack)].stage = "children"

\* The subnodes get_subtopics returned with this step.
Returned == stack'[Len(stack)].subnodes

\* The attempt of this step was accepted: nothing was counted as a retry.
AttemptAccepted == GetSubtopicsReturns /\ retries' = retries

\* The labels a response offers to get_subtopics, stripped and without the
\* blank and non-string items: the valid subtopics its text lists, or, for
\* a text that is one JSON string, the characters of the string (iterating
\* over the parsed string yields them one by one).
Kept(r) == IF r.form = "jsonstr" THEN <<"a", "b", "c", "d", "e">> ELSE r.labels

\* C22: get_subtopics accepts an attempt only when the response lists at
\* least num_subtopics labels once they are stripped and the empty ones
\* discarded, and then returns exactly the first num_subtopics of them in
\* order; a response with fewer labels is a failed attempt; whether it
\* returns labels of a response or placeholders, it returns exactly
\* num_subtopics of them.  (num_subtopics is the tree's degree, which a
\* build never changes: the attempts are compared for the degree of the
\* initial state, the returns at every step.)
C22_ExactlyNumSubtopics ==
    /\ (\A r \in TreeReplies :
            /\ AttemptOutcome(r, tree_degree).ok =>
                 /\ Len(Kept(r)) >= tree_degree
                 /\ AttemptOutcome(r, tree_degree).topics = SubSeq(Kept(r), 1, tree_degree)
            /\ Len(Kept(r)) < tree_degree => ~AttemptOutcome(r, tree_degree).ok)
    /\ [][/\ GetSubtopicsReturns => Len(Returned) = tree_degree
          /\ AttemptAccepted =>
                \E r \in TreeReplies :
                    /\ Len(Kept(r)) >= tree_degree
                    /\ Returned = SubSeq(Kept(r), 1, tree_degree)
          /\ (IsAttempt /\ ~AttemptAccepted) => retries' = retries + 1]_vars

\* A node of degree 2 got the labels x, y of a response that lists five
\* labels among blank and non-string items, and its first child got its two
\* placeholders after three failed attempts.
C22_Witness ==
    /\ tree_degree = 2
    /\ tpc = "building"
    /\ Len(stack) = 2
    /\ stack[1].subnodes = <<"x", "y">>
    /\ stack[2].stage = "children"
    /\ stack[2].subnodes = default_subtopics(<<root_prompt, "x">>, 2)

\* ------------------------------------------------------------- C23

\* build_tree runs to its end once called: a sequential recursion whose
\* every step is taken as soon as the one before it is over.
TreeStep ==
    \/ build_subtree_enter
    \/ \E reply \in TreeReplies : get_subtopics_attempt(reply)
    \/ build_subtree_child
    \/ build_subtree_return

\* A step of the recursion is possible exactly while build_tree is under
\* way.
TreeRunning == tpc = "building"

\* Weak fairness of TreeStep, WF_vars(TreeStep), written out with
\* TreeRunning for ENABLED <<TreeStep>>_vars.
SpecTreeFair ==
    InitTree /\ [][NextTree]_vars /\ ([]<>(~TreeRunning) \/ []<><<TreeStep>>_vars)

\* The nodes build_subtree expands in a tree of this degree and depth:
\* every node above the leaves.
RECURSIVE NonLeafNodes(_, _)
NonLeafNodes(degree, depth) ==
    IF depth = 0 THEN 0 ELSE 1 + degree * NonLeafNodes(degree, depth - 1)

\* get_subtopics is at work for the node on top of the stack.
InGetSubtopics == tpc = "building" /\ stack # <<>> /\ Top.stage = "subtopics"

\* C23: get_subtopics makes at most 3 completion calls for a node and stops
\* at the first accepted attempt; after the failed attempt number k it
\* waits 2^k seconds when another attempt follows, and does not wait after
\* the third; build_tree terminates, after at most 3 completion calls per
\* node above the leaves, whatever the backend returns or raises.
C23_BoundedRetries ==
    /\ [](/\ retries <= 3
          /\ tcalls <= 3 * NonLeafNodes(tree_degree, tree_depth)
          /\ InGetSubtopics =>
                /\ retries < 3
                /\ sleeps = [k \in 1..retries |-> Pow(2, k)])
    /\ [][IsAttempt =>
            /\ retries < 3
            /\ retries' = retries => (stack'[Len(stack)].stage = "children" /\ sleeps' = sleeps)
            /\ retries' # retries =>
                 /\ retries' = retries + 1
                 /\ sleeps' = IF retries' = 3 THEN sleeps ELSE Append(sleeps, Pow(2, retries'))
                 /\ (retries' = 3) = (stack'[Len(stack)].stage = "children")]_vars
    /\ (tpc = "building" ~> tpc = "done")

\* A tree of degree 2 and depth 2 is built with three failed calls for each
\* of its three inner nodes: nine calls, and waits of 2 and 4 seconds for
\* the last node.
C23_Witness ==
    /\ tpc = "done"
    /\ tree_degree = 2
    /\ tree_depth = 2
    /\ tcalls = 9
    /\ sleeps = <<2, 4>>

\* ------------------------------------------------------------- C24

\* The leaves below one child of a node whose subtree has this depth.
LeavesPerChild(depth) == Pow(tree_degree, depth - 1)

\* The paths a frame has collected are the leaves below its subnodes
\* 1..i-1, subnode by subnode in the order of the subnodes, each a path of
\* the full depth that extends the frame's own path.
CollectedInOrder(f) ==
    /\ f.stage # "children" => f.result = <<>>
    /\ f.stage = "children" =>
         /\ Len(f.subnodes) = tree_degree
         /\ Len(f.result) = (f.i - 1) * LeavesPerChild(f.subtree_depth)
         /\ \A a \in 1..Len(f.result) :
              /\ Len(f.result[a]) = Len(f.node_path) + f.subtree_depth
              /\ SubSeq(f.result[a], 1, Len(f.node_path)) = f.node_path
              /\ f.result[a][Len(f.node_path) + 1] =
                   f.subnodes[((a - 1) \div LeavesPerChild(f.subtree_depth)) + 1]

\* The stack is one branch of the tree: each frame below the top has its
\* subnodes, is waiting for its i-th child, and the frame above it is that
\* child, with a path of its own that is the parent's path and one label.
OneBranch ==
    /\ stack # <<>> => (stack[1].node_path = <<root_prompt>> /\ stack[1].subtree_depth = tree_depth)
    /\ \A k \in 1..Len(stack) :
         /\ CollectedInOrder(stack[k])
         /\ k < Len(stack) =>
              /\ stack[k].stage = "children"
              /\ stack[k].i \in 1..Len(stack[k].subnodes)
              /\ stack[k + 1].node_path =
                   Append(stack[k].node_path, stack[k].subnodes[stack[k].i])
              /\ stack[k + 1].subtree_depth = stack[k].subtree_depth - 1

\* What the frame on top of the stack returns when it returns.
ReturnedPaths == IF Top.stage = "enter" THEN <<Top.node_path>> ELSE Top.result

\* One step of the recursion: a call for the top frame only, a descent
\* into the next child of the top frame, or a return from the top frame,
\* which hands its paths to its caller and lets the caller go on to its
\* next child. No step touches the path of a frame that stays.
DepthFirstStep ==
    /\ \A k \in 1..Len(stack) : k <= Len(stack') => stack'[k].node_path = stack[k].node_path
    /\ \A k \in 1..Len(stack) : k < Len(stack) /\ k <= Len(stack') =>
          /\ stack'[k].subnodes = stack[k].subnodes
          /\ k < Len(stack') => stack'[k] = stack[k]
    /\ IsAttempt => (Len(stack') = Len(stack) /\ Top.stage = "subtopics")
    /\ Len(stack') > Len(stack) /\ stack # <<>> =>
          /\ Len(stack') = Len(stack) + 1
          /\ Top.stage = "children"
          /\ stack'[Len(stack)] = Top
          /\ stack'[Len(stack')].stage = "enter"
    /\ Len(stack') < Len(stack) =>
          /\ Len(stack') = Len(stack) - 1
          /\ Top.stage = "enter" => Top.subtree_depth = 0
          /\ Top.stage # "enter" => (Top.stage = "children" /\ Top.i = Len(Top.subnodes) + 1)
          /\ IF stack' = <<>>
             THEN tpc' = "done" /\ tree_paths' = ReturnedPaths
             ELSE /\ stack'[Len(stack')].i = stack[Len(stack')].i + 1
                  /\ stack'[Len(stack')].result = stack[Len(stack')].result \o ReturnedPaths

\* The leaves of the whole tree, from left to right: the a-th path, at each
\* level, lies in the block of its parent, and paths agree on a level
\* exactly when they lie in the same block of that level.
LeftToRight(paths) ==
    /\ Len(paths) = Pow(tree_degree, tree_depth)
    /\ \A a \in 1..Len(paths) : Len(paths[a]) = tree_depth + 1 /\ paths[a][1] = root_prompt
    /\ \A a, b \in 1..Len(paths) : \A l \in 1..tree_depth :
          ((a - 1) \div Pow(tree_degree, tree_depth - l) = (b - 1) \div Pow(tree_degree, tree_depth - l))
             = (SubSeq(paths[a], 1, l + 1) = SubSeq(paths[b], 1, l + 1))

\* C24: build_tree is a depth-first, strictly sequential recursion: the
\* request of a node is over before any request of its descendants, the
\* subtree of child i is finished before that of child i+1 begins, only
\* the node on top of the stack has a call under way, every recursive call
\* works on its own extension of its caller's path, and tree_paths lists
\* the leaves from left to right.
C24_DepthFirst ==
    /\ [](OneBranch /\ (tpc = "done" => LeftToRight(tree_paths)))
    /\ [][DepthFirstStep]_vars

\* A tree of degree 2 and depth 2 was built from different replies: four
\* leaves, the two below x before the two below y.
C24_Witness ==
    /\ tpc = "done"
    /\ tree_degree = 2
    /\ tree_depth = 2
    /\ Len(tree_paths) = 4
    /\ tree_paths[1][2] = "x"
    /\ tree_paths[2][2] = "x"
    /\ tree_paths[3][2] = "y"
    /\ tree_paths[1][3] = "a"
    /\ tree_paths[2][3] = "b"
    /\ tree_paths[3][3] = "subtopic_1_for_y"

\* ------------------------------------------------------------- C27

\* An engine is called again only while its dataset and its failure
\* records together hold at most MaxCarried items.
MaxCarried == 2

\* create_data called once more on an engine whose earlier call returned
\* or raised off its loop: the dataset, failed_samples and failure_analysis
\* are those the earlier calls left.
create_data_again(num_steps_arg, batch_size_arg, tree_arg, model_name_arg, sys_msg_arg) ==
    /\ pc \in {"done", "interrupted", "error"}
    /\ Len(samples) + Len(failed_samples) <= MaxCarried
    /\ IF ~num_steps_arg.some
       THEN RaiseEarly("config_error", "num_steps must be specified", model_name)
       ELSE Checked(num_steps_arg, batch_size_arg, tree_arg,
                    IF model_name_arg # "" THEN Strip(model_name_arg) ELSE model_name,
                    IF sys_msg_arg # "None" THEN sys_msg_arg = "True" ELSE sys_msg)
    /\ sleeps' = <<>>
    /\ UNCHANGED <<treeVars, analysisVars, utilVars>>

InitRepeat == Init /\ max_retries >= 1 /\ sys_msg

NextRepeat ==
    \/ \E batch_size_arg \in 1..MaxBatch :
          create_data(Some(1), batch_size_arg, NoTree, "", "None")
    \/ \E num_steps_arg \in {None, Some(1)} : \E batch_size_arg \in 1..MaxBatch :
          create_data_again(num_steps_arg, batch_size_arg, NoTree, "", "None")
    \/ \E outcome \in CallOutcomes(Len(prompts)) : batch_completion(outcome)
    \/ KeyboardInterrupt

\* DataEngine.create_data called again and again on one engine.
SpecRepeat == InitRepeat /\ [][NextRepeat]_vars

\* q' is q, or q with items appended.
Extended(q, r) == Len(r) >= Len(q) /\ SubSeq(r, 1, Len(q)) = q

InTreeLoop == pc = "loop" /\ drawn_paths.some /\ batch_size >= 1

\* The prompt of a path of two labels.
PromptOfPath(path) ==
    generation_system_prompt
    \o "\nLastly, the topic of the training data should be related to the following subtopics: "
    \o path[1].s \o " -> " \o path[2].s

\* C28: with a topic tree and batch_size >= 1 the number of steps computed
\* from the drawn paths is the num_steps passed in, every step has exactly
\* batch_size prompts (the loop over the slots is never left early), the
\* prompt of slot i of step s is built from the drawn path s * batch_size
\* + i, so that each of the num_steps * batch_size drawn paths serves one
\* slot of one step; a retry sends the prompts of the step again and draws
\* no further path.
C28_OnePathPerSlot ==
    /\ [](InTreeLoop =>
            /\ num_steps = requested.n
            /\ Len(drawn_paths.q) = requested.n * batch_size
            /\ \A i, j \in 1..Len(drawn_paths.q) :
                  drawn_paths.q[i] = drawn_paths.q[j] => i = j
            /\ step \in 0..(num_steps - 1)
            /\ Len(prompts) = batch_size
            /\ \A i \in 1..batch_size :
                  prompts[i] = PromptOfPath(drawn_paths.q[step * batch_size + i]))
    /\ [][InTreeLoop =>
            /\ drawn_paths' = drawn_paths
            /\ num_steps' = num_steps
            /\ (pc' = "loop" /\ step' = step) => prompts' = prompts
            /\ (pc' = "loop" /\ step' # step) => step' = step + 1
            /\ pc' = "done" => step = num_steps - 1]_vars

\* The second step of a run of two steps on a tree is at its second
\* attempt.
C28_Witness ==
    /\ InTreeLoop
    /\ requested = Some(2)
    /\ batch_size = 1
    /\ step = 1
    /\ attempt = 1

\* ------------------------------------------------------------- C29

\* C29: with max_retries >= 1 and batch_size >= 1, and a backend that
\* returns one response for each prompt whenever it does not raise, every
\* step that create_data completes has added at least one sample to the
\* dataset or recorded at least one failure.
C29_EveryStepLeavesATrace ==
    (done.some /\ max_retries >= 1 /\ batch_size >= 1)
        => done.added + Len(done.failures) >= 1

\* A run has returned whose last step made two calls, the first of which
\* raised, added no sample and recorded failures.
C29_Witness ==
    /\ pc = "done"
    /\ done.some
    /\ batch_size = 2
    /\ done.calls = 2
    /\ done.raised = 1
    /\ done.added = 0
    /\ Len(done.failures) >= 1

\* ------------------------------------------------------------- C30

\* The pipeline asks for num_steps and batch_size in 0..MaxAsk each.
MaxAsk == 3

\* The tree build_tree has built, as the topic_tree argument of
\* create_data.
BuiltTree ==
    [some |-> TRUE,
     tree_paths |-> [i \in 1..Len(tree_paths) |->
                        [j \in 1..Len(tree_paths[i]) |-> JStr(tree_paths[i][j])]]]

\* The validator of the tree's degree and depth is asked about a request.
validate_for_tree(num_steps_arg, batch_size_arg) ==
    /\ tpc = "done"
    /\ validate_configuration(num_steps_arg, batch_size_arg)

\* create_data is called on the built tree with the num_steps and the
\* batch_size the validator was asked about; the model stops at the first
\* completion call.
create_data_on_tree ==
    /\ tpc = "done"
    /\ validation.kind = "value"
    /\ create_data(Some(validated.num_steps), validated.batch_size, BuiltTree, "", "None")

NextPipeline ==
    \/ NextTree
    \/ \E num_steps_arg \in 0..MaxAsk : \E batch_size_arg \in 0..MaxAsk :
          validate_for_tree(num_steps_arg, batch_size_arg)
    \/ create_data_on_tree

\* build_tree, validate_configuration, then create_data on the built tree.
SpecPipeline == InitTree /\ [][NextPipeline]_vars

\* create_data has raised the error of a request for more paths than the
\* tree has.
OverCapacityRaised ==
    /\ pc = "config_error"
    /\ exc = OverCapacity(validated.num_steps * validated.batch_size, Len(tree_paths))

\* C30: a tree built by build_tree has exactly the tree_degree ** tree_depth
\* paths the validator counts, whatever calls failed during the build, so
\* that create_data on it, with a num_steps and a batch_size the validator
\* reported valid, never raises the over-capacity error (and raises it for
\* those the validator reported invalid).
C30_ValidatedFits ==
    /\ tpc = "done" => Len(tree_paths) = Pow(tree_degree, tree_depth)
    /\ (validation.kind = "value" /\ pc # "idle") =>
          /\ validation.val.total_tree_paths = Len(tree_paths)
          /\ validation.val.valid => ~OverCapacityRaised /\ pc \in {"loop", "done", "zero_division"}
          /\ ~validation.val.valid => OverCapacityRaised

\* A tree of degree 2 and depth 2, built with failed generations, was
\* reported to fit 2 steps of 2, and create_data has drawn its four paths.
C30_Witness ==
    /\ tpc = "done"
    /\ tree_degree = 2
    /\ tree_depth = 2
    /\ failed_generations # <<>>
    /\ validation.kind = "value"
    /\ validation.val.valid
    /\ validated = [num_steps |-> 2, batch_size |-> 2]
    /\ pc = "loop"
    /\ Len(drawn_paths.q) = 4

\* ------------------------------------------------------------- cli.py

\* The options `start` is run with.
StartOptions ==
    [topic_tree_save_as : {"", "t.jsonl"}, dataset_save_as : {"", "d.jsonl"},
     hf_repo : {"", "user/data"}, config_repository : {"", "org/data"},
     token : {"", "hf_token"}]

\* What a call made by `start` does: it returns, or it raises an Exception
\* with this message.
Returns == [raised |-> FALSE, msg |-> ""]

StageOutcomes == {Returns, [raised |-> TRUE, msg |-> "Test error"],
                  [raised |-> TRUE, msg |-> "boom"]}

\* PromptWrightConfig.from_yaml returns, or raises one of the exceptions
\* `start` tells apart.
LoadOutcomes ==
    {[raised |-> "", msg |-> ""],
     [raised |-> "FileNotFoundError", msg |-> "No such file or directory: 'config.yaml'"],
     [raised |-> "YAMLError", msg |-> "mapping values are not allowed here"],
     [raised |-> "Exception", msg |-> "boom"]}

\* HFUploader.push_to_hub returns a result with a status and a message, or
\* raises.
PushOutcomes ==
    {[raised |-> FALSE, status |-> "success", msg |-> "Dataset pushed successfully to user/data"],
     [raised |-> FALSE, status |-> "error", msg |-> "Repository not found"],
     [raised |-> TRUE, status |-> "", msg |-> "boom"]}

\* A variant of handle_error that exits with code 0.
handle_error_ExitZero(c, error) ==
    [c EXCEPT !.echoed = Append(@, "Error: " \o error), !.exit_code = 0, !.pc = "exited"]

\* handle_error(ctx, error): the message is printed and sys.exit(1) ends
\* the command; no handler of `start` catches SystemExit.
handle_error(c, error) ==
    [c EXCEPT !.echoed = Append(@, "Error: " \o error), !.exit_code = 1, !.pc = "exited"]

\* A call of `start` that is guarded by its own try block: when it raises,
\* handle_error gets the message with the prefix of the block; else the
\* command goes on to `next`, after printing `echo` if there is one.
Stage(at, name, prefix, outcome, echo, next) ==
    /\ cli.pc = at
    /\ cli' = IF outcome.raised
              THEN handle_error([cli EXCEPT !.called = Append(@, name),
                                            !.raised_in = name,
                                            !.raised_msg = outcome.msg],
                                prefix \o outcome.msg)
              ELSE [cli EXCEPT !.called = Append(@, name),
                               !.echoed = IF echo = "" THEN @ ELSE Append(@, echo),
                               !.pc = next]
    /\ UNCHANGED <<treeVars, sleeps, engineVars, analysisVars>>
    /\ UNCHANGED <<validatorVars, datasetVars, extractVars, summary, loaded>>

\* start, lines 66-81: the command is run and loads its configuration.
start(opts, outcome) ==
    /\ cli.pc = "idle"
    /\ cli' = IF outcome.raised = ""
              THEN [cli EXCEPT !.opts = opts, !.pc = "build_tree"]
              ELSE handle_error([cli EXCEPT !.opts = opts],
                      IF outcome.raised = "FileNotFoundError"
                      THEN "Config file not found: config.yaml"
                      ELSE IF outcome.raised = "YAMLError"
                      THEN "Invalid YAML in config file: " \o outcome.msg
                      ELSE "Error loading config file: " \o outcome.msg)
    /\ UNCHANGED <<treeVars, sleeps, engineVars, analysisVars>>
    /\ UNCHANGED <<validatorVars, datasetVars, extractVars, summary, loaded>>

\* start, lines 96-103: TopicTree(...) and tree.build_tree().
start_build_tree(outcome) ==
    Stage("build_tree", "build_tree", "Error building topic tree: ", outcome, "",
          "save_tree")

\* start, lines 105-115: tree.save(tree_save_path).
start_save_tree(outcome) ==
    Stage("save_tree", "tree.save", "Error saving topic tree: ", outcome,
          "Topic tree saved to: " \o (IF cli.opts.topic_tree_save_as # ""
                                      THEN cli.opts.topic_tree_save_as
                                      ELSE "topic_tree.jsonl"),
          "create_engine")

\* start, lines 126-132: DataEngine(...).
start_create_engine(outcome) ==
    Stage("create_engine", "DataEngine", "Error creating data engine: ", outcome, "",
          "dataset_params")

\* start, lines 134-145, under the outer try block only: the dataset
\* parameters are read and the model name is made.
start_dataset_params(outcome) ==
    /\ cli.pc = "dataset_params"
    /\ cli' = IF outcome.raised
              THEN handle_error(cli, "Unexpected error: " \o outcome.msg)
              ELSE [cli EXCEPT !.pc = "create_data"]
    /\ UNCHANGED <<treeVars, sleeps, engineVars, analysisVars>>
    /\ UNCHANGED <<validatorVars, datasetVars, extractVars, summary, loaded>>

\* start, lines 147-158: engine.create_data(...).
start_create_data(outcome) ==
    Stage("create_data", "create_data", "Error creating dataset: ", outcome, "",
          "save_dataset")

\* start, lines 160-168: dataset.save(dataset_save_path); without a
\* Hugging Face repository the command then ends, with exit code 0.
start_save_dataset(outcome) ==
    Stage("save_dataset", "dataset.save", "Error saving dataset: ", outcome,
          "Dataset saved to: " \o (IF cli.opts.dataset_save_as # ""
                                   THEN cli.opts.dataset_save_as
                                   ELSE "dataset.jsonl"),
          IF cli.opts.hf_repo # "" \/ cli.opts.config_repository # ""
          THEN "upload" ELSE "exited")

\* start, lines 170-206: the upload to the Hugging Face Hub.
start_upload(outcome) ==
    /\ cli.pc = "upload"
    /\ cli' = IF cli.opts.token = ""
              THEN handle_error(cli, "Hugging Face token not provided. Set via --hf-token, HF_TOKEN env var, or config file.")
              ELSE IF outcome.raised
              THEN handle_error([cli EXCEPT !.called = Append(@, "push_to_hub")],
                                "Error uploading to Hugging Face Hub: " \o outcome.msg)
              ELSE IF outcome.status = "success"
              THEN [cli EXCEPT !.called = Append(@, "push_to_hub"),
                               !.echoed = Append(@, outcome.msg), !.pc = "exited"]
              ELSE handle_error([cli EXCEPT !.called = Append(@, "push_to_hub")], outcome.msg)
    /\ UNCHANGED <<treeVars, sleeps, engineVars, analysisVars>>
    /\ UNCHANGED <<validatorVars, datasetVars, extractVars, summary, loaded>>

NextCli ==
    \/ \E opts \in StartOptions : \E outcome \in LoadOutcomes : start(opts, outcome)
    \/ \E outcome \in StageOutcomes : start_build_tree(outcome)
    \/ \E outcome \in StageOutcomes : start_save_tree(outcome)
    \/ \E outcome \in StageOutcomes : start_create_engine(outcome)
    \/ \E outcome \in StageOutcomes : start_dataset_params(outcome)
    \/ \E outcome \in StageOutcomes : start_create_data(outcome)
    \/ \E outcome \in StageOutcomes : start_save_dataset(outcome)
    \/ \E outcome \in PushOutcomes : start_upload(outcome)

\* The command `start` of the CLI, run once with each choice of options.
SpecCli == InitIdle /\ [][NextCli]_vars

\* ------------------------------------------------------------- C21

\* The five stages of `start`, in the order of the claim.
FiveStages == <<"build_tree", "tree.save", "DataEngine", "create_data", "dataset.save">>

\* The stages called so far are the first ones of FiveStages, in order and
\* once each.
InFixedOrder(called) ==
    /\ Len(called) <= Len(FiveStages)
    /\ called = SubSeq(FiveStages, 1, Len(called))

\* The prefix `start` puts before the message of a stage that raised.
ErrorPrefix(name) ==
    CASE name = "build_tree" -> "Error building topic tree: "
      [] name = "tree.save" -> "Error saving topic tree: "
      [] name = "DataEngine" -> "Error creating data engine: "
      [] name = "create_data" -> "Error creating dataset: "
      [] name = "dataset.save" -> "Error saving dataset: "

\* The stages called, without the upload that may follow the five.
StagesCalled == SelectSeq(cli.called, LAMBDA name : name # "push_to_hub")

====
